---- MODULE Spec2Model ----
(***************************************************************************)
(* Model of the compiler front end of parser.y / parser.tab.c: the Bison   *)
(* LALR(1) driver yyparse with its tables, the semantic actions (symbol    *)
(* table, AST construction on a heap of Node records), the tree renderer,  *)
(* the code generator and the build/execute orchestration, and main.       *)
(*                                                                         *)
(* Pointers are indices into heap (0 is NULL).  stdout, stderr and the     *)
(* generated file are sequences of chunks, one chunk per printf/putchar    *)
(* call.  The scanner yylex is not part of the sources: it is the input,   *)
(* a token stream made of up to MaxFragments pieces drawn from Fragments.  *)
(*                                                                         *)
(* The driver and its tables are those of parser.tab.c; the semantic       *)
(* actions and the C code after the grammar are those of parser.y; the     *)
(* code generator exists in two versions, the one of parser.y and the one  *)
(* of the committed parser.tab.c, and Generate may run either.             *)
(* Not modelled: malloc returning NULL, the parser stacks growing past     *)
(* YYINITDEPTH, and a scanner that returns the error token YYerror.        *)
(* Whether plain char is signed depends on the build: char_signed, which  *)
(* the model settles where the echo loop starts, the only code it affects. *)
(***************************************************************************)
EXTENDS Integers, Sequences, FiniteSets, TLC

\* ------------------------------------------------------------------ bounds
MaxFragments == 4      \* program pieces the scanner delivers before end of input
MaxEcho == 4           \* characters echoed from result.txt before the model stops following the loop

\* ------------------------------------------------- token codes (yytranslate)
YYEMPTY == -2
YYEOF == 0
YYUNDEF == 257
TOK_NUMBER == 258
TOK_ID == 259
TOK_STRING == 260
TOK_INT == 261
TOK_PRINT == 262
TOK_IF == 263
TOK_ELSE == 264
TOK_LT == 267
CH_LPAREN == 40
CH_RPAREN == 41
CH_STAR == 42
CH_PLUS == 43
CH_MINUS == 45
CH_SEMI == 59
CH_ASSIGN == 61
CH_LBRACE == 123
CH_RBRACE == 125

\* ------------------------------------------------------------ parser tables
YYFINAL == 3
YYLAST == 147
YYNTOKENS == 27
YYMAXUTOK == 271
YYPACT_NINF == -15
YYSYMBOL_YYEOF == 0
YYSYMBOL_YYerror == 1
YYSYMBOL_YYUNDEF == 2

yytranslate ==
  <<
     0, 2, 2, 2, 2, 2, 2, 2, 2, 2, 2, 2, 2, 2, 2, 2,
     2, 2, 2, 2, 2, 2, 2, 2, 2, 2, 2, 2, 2, 2, 2, 2,
     2, 2, 2, 2, 2, 2, 2, 2, 23, 24, 19, 17, 2, 18, 2, 20,
     2, 2, 2, 2, 2, 2, 2, 2, 2, 2, 2, 22, 2, 16, 2, 2,
     2, 2, 2, 2, 2, 2, 2, 2, 2, 2, 2, 2, 2, 2, 2, 2,
     2, 2, 2, 2, 2, 2, 2, 2, 2, 2, 2, 2, 2, 2, 2, 2,
     2, 2, 2, 2, 2, 2, 2, 2, 2, 2, 2, 2, 2, 2, 2, 2,
     2, 2, 2, 2, 2, 2, 2, 2, 2, 2, 2, 25, 2, 26, 2, 2,
     2, 2, 2, 2, 2, 2, 2, 2, 2, 2, 2, 2, 2, 2, 2, 2,
     2, 2, 2, 2, 2, 2, 2, 2, 2, 2, 2, 2, 2, 2, 2, 2,
     2, 2, 2, 2, 2, 2, 2, 2, 2, 2, 2, 2, 2, 2, 2, 2,
     2, 2, 2, 2, 2, 2, 2, 2, 2, 2, 2, 2, 2, 2, 2, 2,
     2, 2, 2, 2, 2, 2, 2, 2, 2, 2, 2, 2, 2, 2, 2, 2,
     2, 2, 2, 2, 2, 2, 2, 2, 2, 2, 2, 2, 2, 2, 2, 2,
     2, 2, 2, 2, 2, 2, 2, 2, 2, 2, 2, 2, 2, 2, 2, 2,
     2, 2, 2, 2, 2, 2, 2, 2, 2, 2, 2, 2, 2, 2, 2, 2,
     1, 2, 3, 4, 5, 6, 7, 8, 9, 10, 11, 12, 13, 14, 15, 21
  >>

yypact ==
  <<
     -15, 14, 3, -15, -15, 0, 13, 4, 25, 35, 35, -15, 97, 35, -14, 38,
     35, -15, 52, 35, 35, 35, 35, 35, 35, 35, 35, 35, 35, -15, 123, 35,
     -15, 30, 67, 82, -15, 32, 32, 127, 127, 127, 127, -7, -7, -15, -15, 110,
     33, 37, 43, -15, -15, -15, -15, 48, -3, 43, -15, -15
  >>

yydefact ==
  <<
     3, 0, 2, 1, 26, 27, 0, 0, 0, 0, 0, 4, 0, 0, 0, 0,
     0, 24, 0, 0, 0, 0, 0, 0, 0, 0, 0, 0, 0, 7, 13, 0,
     5, 0, 0, 0, 25, 18, 19, 20, 21, 22, 23, 14, 15, 16, 17, 0,
     0, 0, 0, 6, 9, 8, 3, 10, 0, 0, 12, 11
  >>

yypgoto ==
  <<
     -15, -15, 6, -15, 16, 9
  >>

yydefgoto ==
  <<
     0, 1, 2, 11, 55, 12
  >>

yytable ==
  <<
     4, 5, 31, 6, 7, 8, 4, 5, 32, 6, 7, 8, 27, 28, 3, 9,
     13, 14, 17, 18, 10, 9, 30, 58, 34, 35, 10, 15, 37, 38, 39, 40,
     41, 42, 43, 44, 45, 46, 4, 5, 47, 4, 5, 33, 21, 22, 23, 24,
     16, 25, 26, 27, 28, 9, 48, 52, 9, 57, 10, 53, 56, 10, 19, 20,
     21, 22, 23, 24, 54, 25, 26, 27, 28, 59, 0, 0, 36, 19, 20, 21,
     22, 23, 24, 0, 25, 26, 27, 28, 0, 0, 0, 49, 19, 20, 21, 22,
     23, 24, 0, 25, 26, 27, 28, 0, 0, 0, 50, 19, 20, 21, 22, 23,
     24, 0, 25, 26, 27, 28, 0, 29, 19, 20, 21, 22, 23, 24, 0, 25,
     26, 27, 28, 0, 51, 19, 20, 21, 22, 23, 24, 0, 25, 26, 27, 28,
     25, 26, 27, 28
  >>

yycheck ==
  <<
     3, 4, 16, 6, 7, 8, 3, 4, 22, 6, 7, 8, 19, 20, 0, 18,
     16, 4, 9, 10, 23, 18, 13, 26, 15, 16, 23, 23, 19, 20, 21, 22,
     23, 24, 25, 26, 27, 28, 3, 4, 31, 3, 4, 5, 12, 13, 14, 15,
     23, 17, 18, 19, 20, 18, 24, 22, 18, 9, 23, 22, 54, 23, 10, 11,
     12, 13, 14, 15, 25, 17, 18, 19, 20, 57, -1, -1, 24, 10, 11, 12,
     13, 14, 15, -1, 17, 18, 19, 20, -1, -1, -1, 24, 10, 11, 12, 13,
     14, 15, -1, 17, 18, 19, 20, -1, -1, -1, 24, 10, 11, 12, 13, 14,
     15, -1, 17, 18, 19, 20, -1, 22, 10, 11, 12, 13, 14, 15, -1, 17,
     18, 19, 20, -1, 22, 10, 11, 12, 13, 14, 15, -1, 17, 18, 19, 20,
     17, 18, 19, 20
  >>

yyr1 ==
  <<
     0, 27, 28, 29, 29, 30, 30, 30, 30, 30, 30, 30, 31, 32, 32, 32,
     32, 32, 32, 32, 32, 32, 32, 32, 32, 32, 32, 32
  >>

yyr2 ==
  <<
     0, 2, 1, 0, 2, 3, 5, 2, 5, 5, 5, 7, 3, 3, 3, 3,
     3, 3, 3, 3, 3, 3, 3, 3, 2, 3, 1, 1
  >>

\* ------------------------------------------------------------ table access
At(tbl, i) == tbl[i + 1]

YYTRANSLATE(yyx) ==
  IF 0 <= yyx /\ yyx <= YYMAXUTOK THEN At(yytranslate, yyx) ELSE YYSYMBOL_YYUNDEF

yypact_value_is_default(n) == n = YYPACT_NINF

Last(s) == s[Len(s)]

Front(s, k) == SubSeq(s, 1, Len(s) - k)

\* ---------------------------------------------------------- semantic values
NULL == 0

NOSTR == ""

YYSTYPE(num, id, str, node) == [num |-> num, id |-> id, str |-> str, node |-> node]

NoVal == YYSTYPE(0, NOSTR, NOSTR, NULL)

NodeVal(n) == YYSTYPE(0, NOSTR, NOSTR, n)

\* -------------------------------------------------- the scanner's token stream
Tok(c) == [tok |-> c, sets |-> FALSE, lval |-> NoVal]

TokNum(n) == [tok |-> TOK_NUMBER, sets |-> TRUE, lval |-> YYSTYPE(n, NOSTR, NOSTR, NULL)]

TokId(s) == [tok |-> TOK_ID, sets |-> TRUE, lval |-> YYSTYPE(0, s, NOSTR, NULL)]

TokStr(s) == [tok |-> TOK_STRING, sets |-> TRUE, lval |-> YYSTYPE(0, NOSTR, s, NULL)]

Names == {"x", "y"}

Fragments ==
  { <<Tok(TOK_INT), TokId(n), Tok(CH_SEMI)>> : n \in Names }
  \cup
  { <<Tok(TOK_INT), TokId("x"), Tok(CH_ASSIGN), TokNum(2), Tok(CH_SEMI)>>,
    <<Tok(TOK_INT), TokId("x"), Tok(CH_ASSIGN), TokId("x"), Tok(CH_SEMI)>>,
    <<TokId("y"), Tok(CH_ASSIGN), TokId("x"), Tok(CH_SEMI)>>,
    <<Tok(TOK_PRINT), Tok(CH_LPAREN), TokId("x"), Tok(CH_RPAREN), Tok(CH_SEMI)>>,
    <<Tok(TOK_PRINT), Tok(CH_LPAREN), TokStr("\"s\""), Tok(CH_RPAREN), Tok(CH_SEMI)>>,
    <<Tok(TOK_IF), Tok(CH_LPAREN), TokNum(1), Tok(TOK_LT), TokNum(2), Tok(CH_RPAREN),
      Tok(CH_LBRACE)>>,
    <<Tok(CH_RBRACE)>>,
    <<Tok(CH_RBRACE), Tok(TOK_ELSE), Tok(CH_LBRACE)>>,
    <<Tok(TOK_IF), Tok(CH_LPAREN), TokNum(1), Tok(TOK_LT), TokNum(2), Tok(CH_RPAREN),
      Tok(CH_LBRACE), Tok(CH_RBRACE), Tok(TOK_ELSE), Tok(CH_LBRACE), Tok(CH_RBRACE)>>,
    <<Tok(CH_MINUS), Tok(CH_LPAREN), TokNum(1), Tok(CH_PLUS), TokId("x"), Tok(CH_RPAREN),
      Tok(CH_STAR), TokNum(2), Tok(CH_SEMI)>>,
    <<Tok(CH_RPAREN)>> }

EndOfFile == Tok(YYEOF)

\* --------------------------------------------------------------------- state
VARIABLES
  pc,            \* position of the single thread of control
  yyss,          \* yyparse: state stack
  yyvs,          \* yyparse: semantic value stack
  yychar,        \* lookahead token code, YYEMPTY when none
  yylval,        \* semantic value of the lookahead
  yyn,           \* rule selected for reduction
  yyerrstatus,   \* tokens to shift before error messages are re-enabled
  yyresult,      \* value returned by yyparse (-1 while it has not returned)
  heap,          \* the malloc'ed Nodes; a Node* is an index, 0 is NULL
  symbol_table,  \* names of the linked list, head first
  stdout,        \* chunks written to standard output
  stderr,        \* chunks written to standard error
  exit_status,   \* process exit status (-1 while the process runs)
  pending,       \* tokens of the current input fragment not yet scanned
  nfrag,         \* fragments scanned so far
  output_c,      \* the generated file output.c
  compile_status,\* result of system("gcc ...") (-2 before the call)
  run_status,    \* result of system("program > result.txt") (-2 before the call)
  result_txt,    \* bytes of result.txt
  fp,            \* read position in result.txt (-1 when not open)
  echoed,        \* bytes passed to putchar by the echo loop
  char_signed,   \* whether plain char is signed in this build (settled by OpenResult)
  log            \* history: the calls made so far, in order

vars ==
  << pc, yyss, yyvs, yychar, yylval, yyn, yyerrstatus, yyresult, heap, symbol_table,
     stdout, stderr, exit_status, pending, nfrag, output_c, compile_status, run_status,
     result_txt, fp, echoed, char_signed, log >>

parserVars == << yyss, yyvs, yychar, yylval, yyn, yyerrstatus, yyresult >>

inputVars == << pending, nfrag >>

buildVars == << output_c, compile_status, run_status, result_txt, fp, echoed >>

yystate == Last(yyss)

NotCalled == -2

ExitCode(v) == v % 256

Init ==
  /\ pc = "main"
  /\ yyss = << >>
  /\ yyvs = << >>
  /\ yychar = YYEMPTY
  /\ yylval = NoVal
  /\ yyn = 0
  /\ yyerrstatus = 0
  /\ yyresult = -1
  /\ heap = << >>
  /\ symbol_table = << >>
  /\ stdout = << >>
  /\ stderr = << >>
  /\ exit_status = -1
  /\ pending = << >>
  /\ nfrag = 0
  /\ output_c = [opened |-> FALSE, closed |-> FALSE, text |-> << >>]
  /\ compile_status = NotCalled
  /\ run_status = NotCalled
  /\ result_txt = << >>
  /\ fp = -1
  /\ echoed = << >>
  /\ char_signed = TRUE
  /\ log = << >>

\* ---------------------------------------------------------------------- main
\* main: fopen("input.txt") fails.
MainCannotOpen ==
  /\ pc = "main"
  /\ stdout' = Append(stdout, "Error: Cannot open 'input.txt'!\n")
  /\ log' = log \o <<"fopen input.txt", "fatal">>
  /\ exit_status' = ExitCode(-1)
  /\ pc' = "exited"
  /\ UNCHANGED << parserVars, heap, symbol_table, stderr, inputVars, buildVars, char_signed >>

\* main: the input opens and yyparse starts in state 0.
MainOpen ==
  /\ pc = "main"
  /\ yyss' = <<0>>
  /\ yyvs' = <<NoVal>>
  /\ yychar' = YYEMPTY
  /\ yyerrstatus' = 0
  /\ log' = log \o <<"fopen input.txt", "yyparse">>
  /\ pc' = "yybackup"
  /\ UNCHANGED << yylval, yyn, yyresult, heap, symbol_table, stdout, stderr, exit_status,
                  inputVars, buildVars, char_signed >>

\* ------------------------------------------------------------------- yyparse
\* yybackup: a lookahead is needed and there is none: call yylex.
NextTokens ==
  IF pending # << >>
    THEN { [t |-> Head(pending), rest |-> Tail(pending), n |-> nfrag] }
    ELSE { [t |-> EndOfFile, rest |-> << >>, n |-> nfrag] }
         \cup { [t |-> Head(f), rest |-> Tail(f), n |-> nfrag + 1] :
                  f \in IF nfrag < MaxFragments THEN Fragments ELSE {} }

YyLex ==
  /\ pc = "yybackup"
  /\ ~ yypact_value_is_default(At(yypact, yystate))
  /\ yychar = YYEMPTY
  /\ \E c \in NextTokens :
       /\ yychar' = IF c.t.tok <= YYEOF THEN YYEOF ELSE c.t.tok
       /\ yylval' = IF c.t.sets THEN c.t.lval ELSE yylval
       /\ pending' = c.rest
       /\ nfrag' = c.n
  /\ log' = Append(log, "yylex")
  /\ UNCHANGED << pc, yyss, yyvs, yyn, yyerrstatus, yyresult, heap, symbol_table, stdout,
                  stderr, exit_status, buildVars, char_signed >>

\* What yybackup/yydefault decide in a state with a lookahead symbol kind.
yytoken == IF yychar = YYEMPTY THEN YYEMPTY ELSE YYTRANSLATE(yychar)

YyDefault(state) ==
  IF At(yydefact, state) = 0
    THEN [act |-> "error", n |-> 0]
    ELSE [act |-> "reduce", n |-> At(yydefact, state)]

YyDecide(state, token) ==
  IF yypact_value_is_default(At(yypact, state))
    THEN YyDefault(state)
    ELSE LET i == At(yypact, state) + token IN
         IF i < 0 \/ YYLAST < i \/ At(yycheck, i) # token
           THEN YyDefault(state)
           ELSE IF At(yytable, i) <= 0
                  THEN [act |-> "reduce", n |-> - At(yytable, i)]
                  ELSE [act |-> "shift", n |-> At(yytable, i)]

Decided ==
  /\ pc = "yybackup"
  /\ yypact_value_is_default(At(yypact, yystate)) \/ yychar # YYEMPTY

\* yyreturnlab: discard the stacks and return to main.
YyReturn(result) ==
  /\ yyresult' = result
  /\ yyss' = <<0>>
  /\ yyvs' = <<NoVal>>
  /\ pc' = "yyreturn"

\* yynewstate/yysetstate: push a state and its value; entering YYFINAL accepts.
YyNewState(ss, vs, st, val) ==
  IF st = YYFINAL
    THEN YyReturn(0)
    ELSE /\ yyss' = Append(ss, st)
         /\ yyvs' = Append(vs, val)
         /\ pc' = "yybackup"
         /\ UNCHANGED yyresult

\* yybackup: shift the lookahead.
Shift ==
  /\ Decided
  /\ YyDecide(yystate, yytoken).act = "shift"
  /\ yyerrstatus' = IF yyerrstatus > 0 THEN yyerrstatus - 1 ELSE yyerrstatus
  /\ yychar' = YYEMPTY
  /\ YyNewState(yyss, yyvs, YyDecide(yystate, yytoken).n, yylval)
  /\ UNCHANGED << yylval, yyn, heap, symbol_table, stdout, stderr, exit_status, inputVars,
                  buildVars, char_signed, log >>

\* yybackup/yydefault: a rule is selected, goto yyreduce.
SelectReduce ==
  /\ Decided
  /\ YyDecide(yystate, yytoken).act = "reduce"
  /\ yyn' = YyDecide(yystate, yytoken).n
  /\ pc' = "yyreduce"
  /\ UNCHANGED << yyss, yyvs, yychar, yylval, yyerrstatus, yyresult, heap, symbol_table,
                  stdout, stderr, exit_status, inputVars, buildVars, char_signed, log >>

\* yybackup/yydefault: no action for the lookahead, goto yyerrlab.
DetectError ==
  /\ Decided
  /\ YyDecide(yystate, yytoken).act = "error"
  /\ pc' = "yyerrlab"
  /\ UNCHANGED << yyss, yyvs, yychar, yylval, yyn, yyerrstatus, yyresult, heap,
                  symbol_table, stdout, stderr, exit_status, inputVars, buildVars,
                  char_signed, log >>

\* ------------------------------------------------------------- symbol table
InList(tab, name) == \E i \in 1..Len(tab) : tab[i] = name

\* Variant of add_symbol that compares the new name with the head of the list only.
add_symbol_head_only(tab, name) ==
  IF tab # << >> /\ tab[1] = name
    THEN [exit |-> TRUE, tab |-> tab,
          out |-> <<"Error: Variable '" \o name \o "' is already declared!\n">>]
    ELSE [exit |-> FALSE, tab |-> <<name>> \o tab, out |-> << >>]

\* Variant of add_symbol that reports a duplicate and carries on.
add_symbol_no_exit(tab, name) ==
  IF InList(tab, name)
    THEN [exit |-> FALSE, tab |-> tab,
          out |-> <<"Error: Variable '" \o name \o "' is already declared!\n">>]
    ELSE [exit |-> FALSE, tab |-> <<name>> \o tab, out |-> << >>]

\* add_symbol: exit(1) with a message when the name is in the list, else push it
\* at the head.
add_symbol(tab, name) ==
  IF InList(tab, name)
    THEN [exit |-> TRUE, tab |-> tab,
          out |-> <<"Error: Variable '" \o name \o "' is already declared!\n">>]
    ELSE [exit |-> FALSE, tab |-> <<name>> \o tab, out |-> << >>]

\* Variant of check_declared that reports an unknown name and carries on.
check_declared_no_exit(tab, name) ==
  IF InList(tab, name)
    THEN [exit |-> FALSE, out |-> << >>]
    ELSE [exit |-> FALSE,
          out |-> <<"Semantic Error: Variable '" \o name \o "' used but not declared.\n">>]

\* Variant of check_declared that compares the name with the head of the list only.
check_declared_head_only(tab, name) ==
  IF tab # << >> /\ tab[1] = name
    THEN [exit |-> FALSE, out |-> << >>]
    ELSE [exit |-> TRUE,
          out |-> <<"Semantic Error: Variable '" \o name \o "' used but not declared.\n">>]

\* check_declared: return when the name is in the list, else message and exit(1).
check_declared(tab, name) ==
  IF InList(tab, name)
    THEN [exit |-> FALSE, out |-> << >>]
    ELSE [exit |-> TRUE,
          out |-> <<"Semantic Error: Variable '" \o name \o "' used but not declared.\n">>]

\* ----------------------------------------------------------------- AST nodes
Node(t, s, val, l, r) ==
  [type |-> t, sval |-> s, ival |-> val, left |-> l, right |-> r, next |-> NULL]

\* mknode: the new node is at index Len(h) + 1 of the returned heap.
mknode(h, t, s, val, l, r) == Append(h, Node(t, s, val, l, r))

RECURSIVE ListTail(_, _)
ListTail(h, p) == IF h[p].next = NULL THEN p ELSE ListTail(h, h[p].next)

\* append_stmt: walk the next links from head and hang stmt on the last node.
append_stmt(h, head, stmt) ==
  IF head = NULL
    THEN [heap |-> h, ret |-> stmt]
    ELSE [heap |-> [h EXCEPT ![ListTail(h, head)].next = stmt], ret |-> head]

\* --------------------------------------------------------- yyreduce, actions
\* yyvsp[k] for k <= 0
Arg(k) == yyvs[Len(yyvs) + k]

\* The tail of yyreduce: pop yylen symbols, push the value, go to the new state.
YyGoto(val) ==
  LET yylen == At(yyr2, yyn)
      ss == Front(yyss, yylen)
      vs == Front(yyvs, yylen)
      yylhs == At(yyr1, yyn) - YYNTOKENS
      yyi == At(yypgoto, yylhs) + Last(ss)
      st == IF 0 <= yyi /\ yyi <= YYLAST /\ At(yycheck, yyi) = Last(ss)
              THEN At(yytable, yyi)
              ELSE At(yydefgoto, yylhs)
  IN  YyNewState(ss, vs, st, val)

\* exit(status) after writing chunks to standard output.
ExitWith(status, out) ==
  /\ stdout' = stdout \o out
  /\ exit_status' = ExitCode(status)
  /\ pc' = "exited"
  /\ UNCHANGED << yyss, yyvs, yyresult >>

ReduceFrame ==
  UNCHANGED << yychar, yylval, yyn, yyerrstatus, stderr, inputVars, buildVars, char_signed >>

\* A reduction whose action only builds nodes or passes a value through.
Build(newheap, val, calls) ==
  /\ heap' = newheap
  /\ YyGoto(val)
  /\ log' = log \o calls
  /\ ReduceFrame
  /\ UNCHANGED << symbol_table, stdout, exit_status >>

\* stmt_list: %empty
ReduceStmtListEmpty ==
  /\ pc = "yyreduce" /\ yyn = 3
  /\ Build(heap, NodeVal(NULL), << >>)

\* stmt_list: stmt_list statement
ReduceStmtListAppend ==
  /\ pc = "yyreduce" /\ yyn = 4
  /\ IF Arg(-1).node # NULL
       THEN LET r == append_stmt(heap, Arg(-1).node, Arg(0).node)
            IN  Build(r.heap, NodeVal(r.ret), <<"append_stmt">>)
       ELSE Build(heap, NodeVal(Arg(0).node), << >>)

\* statement: INT ID ';'   and   statement: INT ID '=' expr ';'
ReduceDecl ==
  /\ pc = "yyreduce" /\ yyn \in {5, 6}
  /\ LET name == IF yyn = 5 THEN Arg(-1).id ELSE Arg(-3).id
         init == IF yyn = 5 THEN NULL ELSE Arg(-1).node
         r == add_symbol(symbol_table, name)
     IN  IF r.exit
           THEN /\ ExitWith(1, r.out)
                /\ log' = log \o <<"add_symbol", "fatal">>
                /\ UNCHANGED << heap, symbol_table >>
           ELSE /\ symbol_table' = r.tab
                /\ heap' = mknode(heap, "N_DECL", name, 0, init, NULL)
                /\ YyGoto(NodeVal(Len(heap) + 1))
                /\ stdout' = stdout \o r.out
                /\ log' = log \o <<"add_symbol">>
                          \o (IF r.out # << >> THEN <<"fatal">> ELSE << >>) \o <<"mknode">>
                /\ UNCHANGED exit_status
  /\ ReduceFrame

\* statement: expr ';'
ReduceExprStmt ==
  /\ pc = "yyreduce" /\ yyn = 7
  /\ Build(heap, NodeVal(Arg(-1).node), << >>)

\* statement: PRINT '(' expr ')' ';'
ReducePrint ==
  /\ pc = "yyreduce" /\ yyn = 8
  /\ Build(mknode(heap, "N_PRINT", NOSTR, 0, Arg(-2).node, NULL), NodeVal(Len(heap) + 1),
           <<"mknode">>)

\* statement: PRINT '(' STRING ')' ';'
ReducePrintStr ==
  /\ pc = "yyreduce" /\ yyn = 9
  /\ Build(mknode(heap, "N_PRINT_STR", Arg(-2).str, 0, NULL, NULL), NodeVal(Len(heap) + 1),
           <<"mknode">>)

\* statement: IF '(' expr ')' block
ReduceIf ==
  /\ pc = "yyreduce" /\ yyn = 10
  /\ Build(mknode(heap, "N_IF", NOSTR, 0, Arg(-2).node, Arg(0).node), NodeVal(Len(heap) + 1),
           <<"mknode">>)

\* Variant of ReduceIfElse that attaches the then-block ($5) as the else-block.
ReduceIfElse_shared_block ==
  /\ pc = "yyreduce" /\ yyn = 11
  /\ LET h == mknode(heap, "N_IF", NOSTR, 0, Arg(-4).node, Arg(-2).node)
         ifn == Len(heap) + 1
     IN  Build([h EXCEPT ![ifn].next = Arg(-2).node], NodeVal(ifn),
               <<"mknode", "ifn->next = else">>)

\* statement: IF '(' expr ')' block ELSE block
ReduceIfElse ==
  /\ pc = "yyreduce" /\ yyn = 11
  /\ LET h == mknode(heap, "N_IF", NOSTR, 0, Arg(-4).node, Arg(-2).node)
         ifn == Len(heap) + 1
     IN  Build([h EXCEPT ![ifn].next = Arg(0).node], NodeVal(ifn),
               <<"mknode", "ifn->next = else">>)

RECURSIVE DeclaredIn(_, _)
\* the names declared by the statements of the list that starts at p
DeclaredIn(h, p) ==
  IF p = NULL THEN {}
  ELSE (IF h[p].type = "N_DECL" THEN {h[p].sval} ELSE {}) \cup DeclaredIn(h, h[p].next)

\* Variant of ReduceBlock that closes a scope: the names declared in the block
\* leave the symbol table.
ReduceBlock_scoped ==
  /\ pc = "yyreduce" /\ yyn = 12
  /\ heap' = mknode(heap, "N_STMTLIST", NOSTR, 0, Arg(-1).node, NULL)
  /\ YyGoto(NodeVal(Len(heap) + 1))
  /\ log' = log \o <<"mknode">>
  /\ symbol_table' = SelectSeq(symbol_table, LAMBDA n : n \notin DeclaredIn(heap, Arg(-1).node))
  /\ ReduceFrame
  /\ UNCHANGED << stdout, exit_status >>

\* block: '{' stmt_list '}'
ReduceBlock ==
  /\ pc = "yyreduce" /\ yyn = 12
  /\ Build(mknode(heap, "N_STMTLIST", NOSTR, 0, Arg(-1).node, NULL), NodeVal(Len(heap) + 1),
           <<"mknode">>)

\* Variant of Lookup that builds the node first and looks the identifier up after.
Lookup_node_first(name, type, l) ==
  LET r == check_declared(symbol_table, name)
  IN  /\ heap' = mknode(heap, type, name, 0, l, NULL)
      /\ IF r.exit
           THEN /\ ExitWith(1, r.out)
                /\ log' = log \o <<"mknode", "check_declared", "fatal">>
           ELSE /\ YyGoto(NodeVal(Len(heap) + 1))
                /\ stdout' = stdout \o r.out
                /\ log' = log \o <<"mknode", "check_declared">>
                /\ UNCHANGED exit_status
      /\ ReduceFrame
      /\ UNCHANGED symbol_table

\* Variant of Lookup that takes an unknown identifier as declared by its use: it
\* puts the name into the symbol table and builds the node.
Lookup_implicit_declare(name, type, l) ==
  /\ symbol_table' = IF InList(symbol_table, name) THEN symbol_table
                      ELSE <<name>> \o symbol_table
  /\ heap' = mknode(heap, type, name, 0, l, NULL)
  /\ YyGoto(NodeVal(Len(heap) + 1))
  /\ log' = log \o <<"check_declared", "mknode">>
  /\ ReduceFrame
  /\ UNCHANGED << stdout, exit_status >>

\* A reduction that looks the identifier up before building its node.
Lookup(name, type, l) ==
  LET r == check_declared(symbol_table, name)
  IN  /\ IF r.exit
           THEN /\ ExitWith(1, r.out)
                /\ log' = log \o <<"check_declared", "fatal">>
                /\ UNCHANGED heap
           ELSE /\ heap' = mknode(heap, type, name, 0, l, NULL)
                /\ YyGoto(NodeVal(Len(heap) + 1))
                /\ stdout' = stdout \o r.out
                /\ log' = log \o <<"check_declared">>
                          \o (IF r.out # << >> THEN <<"fatal">> ELSE << >>) \o <<"mknode">>
                /\ UNCHANGED exit_status
      /\ ReduceFrame
      /\ UNCHANGED symbol_table

\* expr: ID '=' expr
ReduceAssign ==
  /\ pc = "yyreduce" /\ yyn = 13
  /\ Lookup(Arg(-2).id, "N_ASSIGN", Arg(0).node)

BinopOf(rule) ==
  CASE rule = 14 -> "+"  [] rule = 15 -> "-"  [] rule = 16 -> "*"  [] rule = 17 -> "/"
    [] rule = 18 -> "==" [] rule = 19 -> "!=" [] rule = 20 -> "<"  [] rule = 21 -> ">"
    [] rule = 22 -> "<=" [] rule = 23 -> ">="

\* expr: expr OP expr, for the ten binary operators
ReduceBinop ==
  /\ pc = "yyreduce" /\ yyn \in 14..23
  /\ Build(mknode(heap, "N_BINOP", BinopOf(yyn), 0, Arg(-2).node, Arg(0).node),
           NodeVal(Len(heap) + 1), <<"mknode">>)

\* expr: '-' expr %prec UMINUS
ReduceNeg ==
  /\ pc = "yyreduce" /\ yyn = 24
  /\ Build(mknode(heap, "N_BINOP", "neg", 0, Arg(0).node, NULL), NodeVal(Len(heap) + 1),
           <<"mknode">>)

\* expr: '(' expr ')'
ReduceParen ==
  /\ pc = "yyreduce" /\ yyn = 25
  /\ Build(heap, NodeVal(Arg(-1).node), << >>)

\* expr: NUMBER
ReduceNumber ==
  /\ pc = "yyreduce" /\ yyn = 26
  /\ Build(mknode(heap, "N_NUM", NOSTR, Arg(0).num, NULL, NULL), NodeVal(Len(heap) + 1),
           <<"mknode">>)

\* expr: ID
ReduceId ==
  /\ pc = "yyreduce" /\ yyn = 27
  /\ Lookup(Arg(0).id, "N_ID", NULL)

\* ------------------------------------------------------------------ yyerrlab
yyerror(s) == "Parse error: " \o s \o "\n"

\* yyerrlab1: does this state shift the error token?
ShiftsError(state) ==
  /\ ~ yypact_value_is_default(At(yypact, state))
  /\ LET i == At(yypact, state) + YYSYMBOL_YYerror IN
       /\ 0 <= i /\ i <= YYLAST
       /\ At(yycheck, i) = YYSYMBOL_YYerror
       /\ 0 < At(yytable, i)

\* yyerrlab1: states left on the stack once popping stops (0 when the stack runs out).
RECURSIVE ErrorDepth(_)
ErrorDepth(ss) ==
  IF ShiftsError(Last(ss)) THEN Len(ss)
  ELSE IF Len(ss) = 1 THEN 0
  ELSE ErrorDepth(Front(ss, 1))

\* yyerrlab then yyerrlab1: report, then pop until a state shifts error, else YYABORT.
YyErrLab ==
  /\ pc = "yyerrlab"
  /\ stderr' = IF yyerrstatus = 0 THEN Append(stderr, yyerror("syntax error")) ELSE stderr
  /\ log' = IF yyerrstatus = 0 THEN log \o <<"yyerror", "fatal">> ELSE log
  /\ IF yyerrstatus = 3 /\ yychar = YYEOF
       THEN /\ YyReturn(1)
            /\ UNCHANGED << yychar, yyerrstatus >>
       ELSE /\ yychar' = IF yyerrstatus = 3 /\ yychar > YYEOF THEN YYEMPTY ELSE yychar
            /\ yyerrstatus' = 3
            /\ LET d == ErrorDepth(yyss) IN
                 IF d = 0
                   THEN YyReturn(1)
                   ELSE LET ss == SubSeq(yyss, 1, d)
                            i == At(yypact, Last(ss)) + YYSYMBOL_YYerror
                        IN  YyNewState(ss, SubSeq(yyvs, 1, d), At(yytable, i), yylval)
  /\ UNCHANGED << yylval, yyn, heap, symbol_table, stdout, exit_status, inputVars, buildVars,
                  char_signed >>

\* main after yyparse: fclose(myfile); return 0.
main_return(result) == 0

MainReturn ==
  /\ pc = "yyreturn"
  /\ exit_status' = ExitCode(main_return(yyresult))
  /\ log' = Append(log, "fclose input.txt")
  /\ pc' = "exited"
  /\ UNCHANGED << parserVars, heap, symbol_table, stdout, stderr, inputVars, buildVars,
                  char_signed >>

\* ------------------------------------------------------------- tree renderer
Digits == <<"0", "1", "2", "3", "4", "5", "6", "7", "8", "9">>

\* printf("%d")
RECURSIVE ToDecimal(_)
ToDecimal(n) ==
  IF n < 0 THEN "-" \o ToDecimal(-n)
  ELSE IF n < 10 THEN Digits[n + 1]
  ELSE ToDecimal(n \div 10) \o Digits[(n % 10) + 1]

RECURSIVE Pow2(_)
Pow2(k) == IF k = 0 THEN 1 ELSE 2 * Pow2(k - 1)

\* mask & (1 << i)
BitSet(mask, i) == (mask \div Pow2(i)) % 2 = 1

\* mask | (1 << i)
OrBit(mask, i) == IF BitSet(mask, i) THEN mask ELSE mask + Pow2(i)

RECURSIVE Bars(_, _, _)
Bars(i, depth, mask) ==
  IF i < depth - 1
    THEN <<IF BitSet(mask, i) THEN "|   " ELSE "    ">> \o Bars(i + 1, depth, mask)
    ELSE << >>

print_branch(depth, is_last, mask) ==
  Bars(0, depth, mask)
  \o (IF depth > 0 THEN <<IF is_last THEN "+-- " ELSE "|-- ">> ELSE << >>)

NodeLabel(n) ==
  CASE n.type = "N_DECL" -> "DECL (" \o n.sval \o ")\n"
    [] n.type = "N_ASSIGN" -> "ASSIGN (=) " \o n.sval \o "\n"
    [] n.type = "N_PRINT" -> "PRINT (Expr)\n"
    [] n.type = "N_PRINT_STR" -> "PRINT (String): " \o n.sval \o "\n"
    [] n.type = "N_IF" -> "IF\n"
    [] n.type = "N_BINOP" -> "OP (" \o n.sval \o ")\n"
    [] n.type = "N_NUM" -> "NUM (" \o ToDecimal(n.ival) \o ")\n"
    [] n.type = "N_ID" -> "ID (" \o n.sval \o ")\n"
    [] n.type = "N_STMTLIST" -> "BLOCK\n"
    [] OTHER -> "UNKNOWN\n"

RECURSIVE print_tree_visual(_, _, _, _, _)
RECURSIVE PrintChildren(_, _, _, _)

\* the while loop over child = child->next of a N_STMTLIST
PrintChildren(h, child, depth, mask) ==
  IF child = NULL THEN << >>
  ELSE print_tree_visual(h, child, depth, h[child].next = NULL, mask)
       \o PrintChildren(h, h[child].next, depth, mask)

print_tree_visual(h, n, depth, is_last, mask) ==
  IF n = NULL THEN << >>
  ELSE LET next_mask == IF ~ is_last THEN OrBit(mask, depth) ELSE mask
           l == h[n].left
           r == h[n].right
       IN  print_branch(depth, is_last, mask)
           \o <<NodeLabel(h[n])>>
           \o (IF h[n].type = "N_STMTLIST"
                 THEN PrintChildren(h, l, depth + 1, next_mask)
               ELSE IF l # NULL /\ r # NULL
                 THEN print_tree_visual(h, l, depth + 1, FALSE, next_mask)
                      \o print_tree_visual(h, r, depth + 1, TRUE, next_mask)
               ELSE IF l # NULL
                 THEN print_tree_visual(h, l, depth + 1, TRUE, next_mask)
               ELSE IF r # NULL
                 THEN print_tree_visual(h, r, depth + 1, TRUE, next_mask)
               ELSE << >>)

RECURSIVE Visit(_, _, _, _, _, _)
RECURSIVE VisitChildren(_, _, _, _, _)

\* The calls of print_tree_visual on non-null nodes, in the order they are made,
\* each with its arguments and with the calls it is nested in (path: node and
\* is_last of the callers, outermost first).
VisitChildren(h, child, depth, mask, path) ==
  IF child = NULL THEN << >>
  ELSE Visit(h, child, depth, h[child].next = NULL, mask, path)
       \o VisitChildren(h, h[child].next, depth, mask, path)

\* Variant of Visit that sets the bit of its depth in next_mask whatever is_last is.
Visit_mask_always(h, n, depth, is_last, mask, path) ==
  IF n = NULL THEN << >>
  ELSE LET next_mask == OrBit(mask, depth)
           l == h[n].left
           r == h[n].right
           here == Append(path, [node |-> n, is_last |-> is_last])
       IN  <<[node |-> n, depth |-> depth, is_last |-> is_last, mask |-> mask, path |-> path]>>
           \o (IF h[n].type = "N_STMTLIST"
                 THEN VisitChildren(h, l, depth + 1, next_mask, here)
               ELSE IF l # NULL /\ r # NULL
                 THEN Visit(h, l, depth + 1, FALSE, next_mask, here)
                      \o Visit(h, r, depth + 1, TRUE, next_mask, here)
               ELSE IF l # NULL
                 THEN Visit(h, l, depth + 1, TRUE, next_mask, here)
               ELSE IF r # NULL
                 THEN Visit(h, r, depth + 1, TRUE, next_mask, here)
               ELSE << >>)

Visit(h, n, depth, is_last, mask, path) ==
  IF n = NULL THEN << >>
  ELSE LET next_mask == IF ~ is_last THEN OrBit(mask, depth) ELSE mask
           l == h[n].left
           r == h[n].right
           here == Append(path, [node |-> n, is_last |-> is_last])
       IN  <<[node |-> n, depth |-> depth, is_last |-> is_last, mask |-> mask, path |-> path]>>
           \o (IF h[n].type = "N_STMTLIST"
                 THEN VisitChildren(h, l, depth + 1, next_mask, here)
               ELSE IF l # NULL /\ r # NULL
                 THEN Visit(h, l, depth + 1, FALSE, next_mask, here)
                      \o Visit(h, r, depth + 1, TRUE, next_mask, here)
               ELSE IF l # NULL
                 THEN Visit(h, l, depth + 1, TRUE, next_mask, here)
               ELSE IF r # NULL
                 THEN Visit(h, r, depth + 1, TRUE, next_mask, here)
               ELSE << >>)

\* ------------------------------------------------------------ code generator
RECURSIVE gen_expr_no_parens(_, _)
\* Variant of gen_expr that writes a binary application without its parentheses.
gen_expr_no_parens(h, n) ==
  IF n = NULL THEN << >>
  ELSE CASE h[n].type = "N_NUM" -> <<ToDecimal(h[n].ival)>>
         [] h[n].type = "N_ID" -> <<h[n].sval>>
         [] h[n].type = "N_ASSIGN" ->
              <<"(" \o h[n].sval \o " = ">> \o gen_expr_no_parens(h, h[n].left) \o <<")">>
         [] h[n].type = "N_BINOP" ->
              IF h[n].sval = "neg"
                THEN <<"(-">> \o gen_expr_no_parens(h, h[n].left) \o <<")">>
                ELSE gen_expr_no_parens(h, h[n].left) \o <<" " \o h[n].sval \o " ">>
                     \o gen_expr_no_parens(h, h[n].right)
         [] OTHER -> << >>

RECURSIVE gen_expr(_, _)
gen_expr(h, n) ==
  IF n = NULL THEN << >>
  ELSE CASE h[n].type = "N_NUM" -> <<ToDecimal(h[n].ival)>>
         [] h[n].type = "N_ID" -> <<h[n].sval>>
         [] h[n].type = "N_ASSIGN" ->
              <<"(" \o h[n].sval \o " = ">> \o gen_expr(h, h[n].left) \o <<")">>
         [] h[n].type = "N_BINOP" ->
              IF h[n].sval = "neg"
                THEN <<"(-">> \o gen_expr(h, h[n].left) \o <<")">>
                ELSE <<"(">> \o gen_expr(h, h[n].left) \o <<" " \o h[n].sval \o " ">>
                     \o gen_expr(h, h[n].right) \o <<")">>
         [] OTHER -> << >>

Indent(indent) == [i \in 1..indent |-> "    "]

RECURSIVE gen_stmt(_, _, _)
RECURSIVE GenList(_, _, _)

\* for (Node *p = first; p; p = p->next) gen_stmt(out, p, indent);
GenList(h, p, indent) ==
  IF p = NULL THEN << >> ELSE gen_stmt(h, p, indent) \o GenList(h, h[p].next, indent)

gen_stmt(h, s, indent) ==
  IF s = NULL THEN << >>
  ELSE Indent(indent) \o
       CASE h[s].type = "N_DECL" ->
              <<"int " \o h[s].sval>>
              \o (IF h[s].left # NULL THEN <<" = ">> \o gen_expr(h, h[s].left) ELSE << >>)
              \o <<";\n">>
         [] h[s].type = "N_PRINT" ->
              <<"printf(\"%d\\n\", ">> \o gen_expr(h, h[s].left) \o <<");\n">>
         [] h[s].type = "N_PRINT_STR" ->
              <<"printf(\"%s\\n\", " \o h[s].sval \o ");\n">>
         [] h[s].type = "N_IF" ->
              <<"if (">> \o gen_expr(h, h[s].left) \o <<") {\n">>
              \o (IF h[s].right # NULL /\ h[h[s].right].type = "N_STMTLIST"
                    THEN GenList(h, h[h[s].right].left, indent + 1) ELSE << >>)
              \o Indent(indent) \o <<"}">>
              \o (IF h[s].next # NULL /\ h[h[s].next].type = "N_STMTLIST"
                    THEN <<" else {\n">> \o GenList(h, h[h[s].next].left, indent + 1)
                         \o Indent(indent) \o <<"}\n">>
                    ELSE <<"\n">>)
         [] h[s].type = "N_STMTLIST" -> << >>
         [] OTHER -> gen_expr(h, s) \o <<";\n">>

\* The generator as the committed parser.tab.c has it: that file was produced from
\* an earlier parser.y and its gen_expr has no case for "neg".  Which of the two
\* the executable runs depends on whether the build regenerates parser.tab.c.
RECURSIVE gen_expr_tab(_, _)
gen_expr_tab(h, n) ==
  IF n = NULL THEN << >>
  ELSE CASE h[n].type = "N_NUM" -> <<ToDecimal(h[n].ival)>>
         [] h[n].type = "N_ID" -> <<h[n].sval>>
         [] h[n].type = "N_ASSIGN" ->
              <<"(" \o h[n].sval \o " = ">> \o gen_expr_tab(h, h[n].left) \o <<")">>
         [] h[n].type = "N_BINOP" ->
              <<"(">> \o gen_expr_tab(h, h[n].left) \o <<" " \o h[n].sval \o " ">>
              \o gen_expr_tab(h, h[n].right) \o <<")">>
         [] OTHER -> << >>

RECURSIVE gen_stmt_tab(_, _, _)
RECURSIVE GenList_tab(_, _, _)

GenList_tab(h, p, indent) ==
  IF p = NULL THEN << >>
  ELSE gen_stmt_tab(h, p, indent) \o GenList_tab(h, h[p].next, indent)

gen_stmt_tab(h, s, indent) ==
  IF s = NULL THEN << >>
  ELSE Indent(indent) \o
       CASE h[s].type = "N_DECL" ->
              <<"int " \o h[s].sval>>
              \o (IF h[s].left # NULL THEN <<" = ">> \o gen_expr_tab(h, h[s].left) ELSE << >>)
              \o <<";\n">>
         [] h[s].type = "N_PRINT" ->
              <<"printf(\"%d\\n\", ">> \o gen_expr_tab(h, h[s].left) \o <<");\n">>
         [] h[s].type = "N_PRINT_STR" ->
              <<"printf(\"%s\\n\", " \o h[s].sval \o ");\n">>
         [] h[s].type = "N_IF" ->
              <<"if (">> \o gen_expr_tab(h, h[s].left) \o <<") {\n">>
              \o (IF h[s].right # NULL /\ h[h[s].right].type = "N_STMTLIST"
                    THEN GenList_tab(h, h[h[s].right].left, indent + 1) ELSE << >>)
              \o Indent(indent) \o <<"}">>
              \o (IF h[s].next # NULL /\ h[h[s].next].type = "N_STMTLIST"
                    THEN <<" else {\n">> \o GenList_tab(h, h[h[s].next].left, indent + 1)
                         \o Indent(indent) \o <<"}\n">>
                    ELSE <<"\n">>)
         [] h[s].type = "N_STMTLIST" -> << >>
         [] OTHER -> gen_expr_tab(h, s) \o <<";\n">>

\* --------------------------------------------- program: stmt_list (the pipeline)
Dashes == "-------------------------\n"

\* Variant of RenderRoot whose walk over the statements advances root->left itself
\* instead of a local child pointer, leaving the root without statements.
RenderRoot_consuming(h, root) ==
  [heap |-> IF root = NULL THEN h ELSE [h EXCEPT ![root].left = NULL],
   out |-> print_tree_visual(h, root, 0, TRUE, 0)]

\* print_tree_visual(root, 0, 1, 0) as the program rule calls it: the text it
\* prints and the nodes as it leaves them (it only reads them).
RenderRoot(h, root) == [heap |-> h, out |-> print_tree_visual(h, root, 0, TRUE, 0)]

\* The action of rule 2 up to the call of generate_target_code: wrap the list in a
\* N_STMTLIST node and render it.
ReduceProgram ==
  /\ pc = "yyreduce" /\ yyn = 2
  /\ LET stmts == Arg(0).node
         h == IF stmts # NULL THEN mknode(heap, "N_STMTLIST", NOSTR, 0, stmts, NULL) ELSE heap
         root == IF stmts # NULL THEN Len(heap) + 1 ELSE NULL
         r == RenderRoot(h, root)
     IN  /\ heap' = r.heap
         /\ stdout' = stdout \o <<"\n--- VISUAL PARSE TREE ---\n">>
                      \o r.out \o <<Dashes \o "\n">>
         /\ log' = log \o (IF stmts # NULL THEN <<"mknode">> ELSE << >>)
                   \o <<"print_tree_visual">>
  /\ pc' = "generate_target_code"
  /\ UNCHANGED << parserVars, symbol_table, stderr, exit_status, inputVars, buildVars,
                  char_signed >>

Prologue == <<"#include <stdio.h>\n#include <stdlib.h>\n\nint main() {\n">>

Epilogue == <<"    return 0;\n}\n">>

\* Variant of GenerateCannotOpen that reports the failure and goes on to
\* execute_generated_code instead of returning.
GenerateCannotOpen_no_return ==
  /\ pc = "generate_target_code"
  /\ stderr' = Append(stderr, "fopen output.c: <strerror>\n")
  /\ log' = Append(log, "fopen output.c")
  /\ pc' = "execute_generated_code"
  /\ UNCHANGED << parserVars, heap, symbol_table, stdout, exit_status, inputVars, buildVars,
                  char_signed >>

\* generate_target_code: fopen("output.c", "w") fails: perror and return.
GenerateCannotOpen ==
  /\ pc = "generate_target_code"
  /\ stderr' = Append(stderr, "fopen output.c: <strerror>\n")
  /\ log' = Append(log, "fopen output.c")
  /\ pc' = "program_end"
  /\ UNCHANGED << parserVars, heap, symbol_table, stdout, exit_status, inputVars, buildVars,
                  char_signed >>

\* for (Node *p = stmts; p; p = p->next) gen_stmt(out, p, 1);  with the gen_stmt of
\* parser.y or with the one of the committed parser.tab.c
Statements(h, stmts) == { GenList(h, stmts, 1), GenList_tab(h, stmts, 1) }

\* Variant of Generate that calls execute_generated_code before fclose(out).
Generate_exec_before_fclose ==
  /\ pc = "generate_target_code"
  /\ \E body \in Statements(heap, Arg(0).node) :
       output_c' = [opened |-> TRUE, closed |-> FALSE,
                    text |-> Prologue \o body \o Epilogue]
  /\ log' = log \o <<"fopen output.c">>
  /\ pc' = "execute_generated_code"
  /\ UNCHANGED << parserVars, heap, symbol_table, stdout, stderr, exit_status, inputVars,
                  compile_status, run_status, result_txt, fp, echoed, char_signed >>

\* generate_target_code: write prologue, statements and epilogue, close the file.
Generate ==
  /\ pc = "generate_target_code"
  /\ \E body \in Statements(heap, Arg(0).node) :
       output_c' = [opened |-> TRUE, closed |-> TRUE,
                    text |-> Prologue \o body \o Epilogue]
  /\ log' = log \o <<"fopen output.c", "fclose output.c">>
  /\ pc' = "execute_generated_code"
  /\ UNCHANGED << parserVars, heap, symbol_table, stdout, stderr, exit_status, inputVars,
                  compile_status, run_status, result_txt, fp, echoed, char_signed >>

SystemStatus == {0, 256}

ResultContents == { << >>, <<49, 10>>, <<65, 255, 66>> }

EOF == -1

\* Variant of compile_outcome without the return after the message.
compile_outcome_no_return(status) ==
  [out |-> IF status # 0 THEN <<"Error: Compilation failed.\n">> ELSE << >>, next |-> "run"]

\* Variant of compile_outcome that ends the process when the compiler fails.
compile_outcome_exit(status) ==
  IF status # 0
    THEN [out |-> <<"Error: Compilation failed.\n">>, next |-> "exit"]
    ELSE [out |-> << >>, next |-> "run"]

\* execute_generated_code: what follows system("gcc output.c -o program").
compile_outcome(status) ==
  IF status # 0
    THEN [out |-> <<"Error: Compilation failed.\n">>, next |-> "return"]
    ELSE [out |-> << >>, next |-> "run"]

\* execute_generated_code: the header and the compile step.
Compile ==
  /\ pc = "execute_generated_code"
  /\ \E st \in SystemStatus :
       LET o == compile_outcome(st) IN
         /\ compile_status' = st
         /\ stdout' = stdout \o <<"\n--- EXECUTION RESULTS ---\n">> \o o.out
         /\ pc' = CASE o.next = "return" -> "program_end"
                    [] o.next = "run" -> "run"
                    [] o.next = "exit" -> "exited"
         /\ exit_status' = IF o.next = "exit" THEN ExitCode(1) ELSE exit_status
  /\ log' = Append(log, "system gcc")
  /\ UNCHANGED << parserVars, heap, symbol_table, stderr, inputVars, output_c, run_status,
                  result_txt, fp, echoed, char_signed >>

\* execute_generated_code: system("program > result.txt").
Run ==
  /\ pc = "run"
  /\ run_status' \in SystemStatus
  /\ result_txt' \in ResultContents
  /\ log' = Append(log, "system program")
  /\ pc' = "run_done"
  /\ UNCHANGED << parserVars, heap, symbol_table, stdout, stderr, exit_status, inputVars,
                  output_c, compile_status, fp, echoed, char_signed >>

\* execute_generated_code: run_status != 0, only the closing line is printed.
RunFailed ==
  /\ pc = "run_done"
  /\ run_status # 0
  /\ stdout' = Append(stdout, Dashes)
  /\ pc' = "program_end"
  /\ UNCHANGED << parserVars, heap, symbol_table, stderr, exit_status, inputVars, buildVars,
                  char_signed, log >>

\* execute_generated_code: fopen("result.txt", "r") fails.
OpenResultFails ==
  /\ pc = "run_done"
  /\ run_status = 0
  /\ stdout' = stdout \o <<"Error reading result.txt\n", Dashes>>
  /\ log' = Append(log, "fopen result.txt")
  /\ pc' = "program_end"
  /\ UNCHANGED << parserVars, heap, symbol_table, stderr, exit_status, inputVars, buildVars,
                  char_signed >>

\* execute_generated_code: fopen("result.txt", "r") succeeds.
OpenResult ==
  /\ pc = "run_done"
  /\ run_status = 0
  /\ fp' = 0
  /\ char_signed' \in BOOLEAN
  /\ log' = Append(log, "fopen result.txt")
  /\ pc' = "echo"
  /\ UNCHANGED << parserVars, heap, symbol_table, stdout, stderr, exit_status, inputVars,
                  output_c, compile_status, run_status, result_txt, echoed >>

\* fgetc: the next byte as an int, EOF at the end of the file
fgetc(file, pos) == IF pos < Len(file) THEN file[pos + 1] ELSE EOF

\* the int returned by fgetc stored in `char ch` and promoted back to int
ToChar(c) ==
  IF char_signed
    THEN IF c % 256 >= 128 THEN (c % 256) - 256 ELSE c % 256
    ELSE c % 256

Chr(b) ==
  CASE b = 10 -> "\n" [] b = 49 -> "1" [] b = 65 -> "A" [] b = 66 -> "B"
    [] OTHER -> "\\" \o ToDecimal(b)

\* while ((ch = fgetc(fp)) != EOF) putchar(ch);   one iteration that prints
EchoChar ==
  /\ pc = "echo"
  /\ ToChar(fgetc(result_txt, fp)) # EOF
  /\ Len(echoed) < MaxEcho
  /\ stdout' = Append(stdout, Chr(ToChar(fgetc(result_txt, fp)) % 256))
  /\ echoed' = Append(echoed, ToChar(fgetc(result_txt, fp)) % 256)
  /\ fp' = IF fp < Len(result_txt) THEN fp + 1 ELSE fp
  /\ UNCHANGED << pc, parserVars, heap, symbol_table, stderr, exit_status, inputVars,
                  output_c, compile_status, run_status, result_txt, char_signed, log >>

\* the loop ends: fclose, the two closing lines
EchoEnd ==
  /\ pc = "echo"
  /\ ToChar(fgetc(result_txt, fp)) = EOF
  /\ fp' = -1
  /\ stdout' = stdout \o <<"\n(Output saved to 'result.txt')\n", Dashes>>
  /\ log' = Append(log, "fclose result.txt")
  /\ pc' = "program_end"
  /\ UNCHANGED << parserVars, heap, symbol_table, stderr, exit_status, inputVars, output_c,
                  compile_status, run_status, result_txt, echoed, char_signed >>

\* the action of rule 2 has returned: $$ = $1, pop and go to the next state
ProgramEnd ==
  /\ pc = "program_end"
  /\ YyGoto(Arg(0))
  /\ UNCHANGED << yychar, yylval, yyn, yyerrstatus, heap, symbol_table, stdout, stderr,
                  exit_status, inputVars, buildVars, char_signed, log >>

\* ------------------------------------------------------------- specification
Next ==
  \/ MainCannotOpen
  \/ MainOpen
  \/ YyLex
  \/ Shift
  \/ SelectReduce
  \/ DetectError
  \/ ReduceProgram
  \/ ReduceStmtListEmpty
  \/ ReduceStmtListAppend
  \/ ReduceDecl
  \/ ReduceExprStmt
  \/ ReducePrint
  \/ ReducePrintStr
  \/ ReduceIf
  \/ ReduceIfElse
  \/ ReduceBlock
  \/ ReduceAssign
  \/ ReduceBinop
  \/ ReduceNeg
  \/ ReduceParen
  \/ ReduceNumber
  \/ ReduceId
  \/ YyErrLab
  \/ GenerateCannotOpen
  \/ Generate
  \/ Compile
  \/ Run
  \/ RunFailed
  \/ OpenResultFails
  \/ OpenResult
  \/ EchoChar
  \/ EchoEnd
  \/ ProgramEnd
  \/ MainReturn

Spec == Init /\ [][Next]_vars

\* ==================================================================== claims
Range(s) == { s[i] : i \in 1..Len(s) }

Count(s, e) == Cardinality({ i \in 1..Len(s) : s[i] = e })

LastChunk(s) == IF s = << >> THEN "" ELSE s[Len(s)]

\* The diagnostics of the four fatal conditions, as the program words them.
UndeclaredVariable(name) ==
  "Semantic Error: Variable '" \o name \o "' used but not declared.\n"

DuplicateDeclaration(name) == "Error: Variable '" \o name \o "' is already declared!\n"

SyntaxError == "Parse error: syntax error\n"

ResourceError == "Error: Cannot open 'input.txt'!\n"

FatalDiagnostics ==
  {SyntaxError, ResourceError}
  \cup { UndeclaredVariable(n) : n \in Names } \cup { DuplicateDeclaration(n) : n \in Names }

\* Number of fatal diagnostics written so far, on either stream.
FatalEmitted(out, err) ==
  Cardinality({ i \in 1..Len(out) : out[i] \in FatalDiagnostics })
  + Cardinality({ i \in 1..Len(err) : err[i] \in FatalDiagnostics })

\* A name was declared earlier: a Declaration node for it has been built.
DeclaredEarlier(name) ==
  \E i \in 1..Len(heap) : heap[i].type = "N_DECL" /\ heap[i].sval = name

\* The reduction about to run uses an identifier (assignment target or operand).
UsesIdentifier == pc = "yyreduce" /\ yyn \in {13, 27}

UsedName == IF yyn = 13 THEN Arg(-2).id ELSE Arg(0).id

\* The reduction about to run is a declaration.
Declares == pc = "yyreduce" /\ yyn \in {5, 6}

DeclaredName == IF yyn = 5 THEN Arg(-1).id ELSE Arg(-3).id

\* C1: whenever a reduction uses an identifier (as assignment target or as
\* operand) that no earlier declaration introduced, the run ends there with the
\* UndeclaredVariable diagnostic for that name, no node is built for it, and
\* output.c has not been opened or written.
C1_UndeclaredFails ==
  [][ (UsesIdentifier /\ ~ DeclaredEarlier(UsedName))
        => /\ pc' = "exited"
           /\ stdout' = Append(stdout, UndeclaredVariable(UsedName))
           /\ heap' = heap
           /\ ~ output_c'.opened /\ output_c'.text = << >>
           /\ "fopen output.c" \notin Range(log') ]_vars

\* C1 witness: `y = x;` after `int x;`: the assignment target y is undeclared.
C1_Witness ==
  /\ pc = "exited"
  /\ symbol_table = <<"x">>
  /\ yyn = 13
  /\ LastChunk(stdout) = UndeclaredVariable("y")
  /\ ~ output_c.opened

\* C2: whenever a declaration is reduced for a name that an earlier declaration
\* introduced, wherever that one stood, the run ends there with the
\* DuplicateDeclaration diagnostic for the name and nothing is declared or built.
C2_DuplicateFails ==
  [][ (Declares /\ DeclaredEarlier(DeclaredName))
        => /\ pc' = "exited"
           /\ stdout' = Append(stdout, DuplicateDeclaration(DeclaredName))
           /\ heap' = heap
           /\ symbol_table' = symbol_table ]_vars

\* C2 witness: the first declaration of x sits in the block of an if, the second
\* one after that if at top level.
C2_Witness ==
  /\ pc = "exited"
  /\ LastChunk(stdout) = DuplicateDeclaration("x")
  /\ \E b \in 1..Len(heap) :
       /\ heap[b].type = "N_STMTLIST"
       /\ heap[b].left # NULL
       /\ heap[heap[b].left].type = "N_DECL"
       /\ heap[heap[b].left].sval = "x"
  /\ \E i \in 1..Len(heap) : heap[i].type = "N_IF" /\ heap[i].right # NULL

\* C3: a run in which a fatal condition was reported ends with a non-zero exit
\* status.
C3_FatalExitsNonZero ==
  (pc = "exited" /\ "fatal" \in Range(log)) => exit_status # 0

\* C4: the diagnostic of a fatal condition goes to standard error and never to
\* standard output.
C4_FatalOnStderr ==
  /\ \A i \in 1..Len(stdout) : stdout[i] \notin FatalDiagnostics
  /\ "fatal" \in Range(log) => \E i \in 1..Len(stderr) : stderr[i] \in FatalDiagnostics

\* C5: in a run with a fatal condition output.c is never opened or written and
\* neither subprocess is invoked.
C5_FatalBeforeGeneration ==
  "fatal" \in Range(log)
    => /\ ~ output_c.opened /\ output_c.text = << >>
       /\ compile_status = NotCalled
       /\ run_status = NotCalled

\* C6: at most one fatal diagnostic is ever emitted, and once it has been emitted
\* the run is over: yyparse has returned or the process has exited, and no further
\* declare (add_symbol), lookup (check_declared) or node construction happens.
C6_FailFast ==
  [][ /\ Count(log', "fatal") <= 1
      /\ FatalEmitted(stdout', stderr') <= 1
      /\ "fatal" \in Range(log)
           => /\ pc \in {"yyreturn", "exited"}
              /\ heap' = heap
              /\ symbol_table' = symbol_table
              /\ Count(log', "add_symbol") = Count(log, "add_symbol")
              /\ Count(log', "check_declared") = Count(log, "check_declared")
              /\ Count(log', "mknode") = Count(log, "mknode")
              /\ stdout' = stdout /\ stderr' = stderr ]_vars

\* C6 witness: `y = x;` with neither name declared holds two errors; the run has
\* ended on the first (x), with the target y still waiting on the value stack.
C6_Witness ==
  /\ pc = "exited"
  /\ Count(log, "fatal") = 1
  /\ FatalEmitted(stdout, stderr) = 1
  /\ symbol_table = << >>
  /\ LastChunk(stdout) = UndeclaredVariable("x")
  /\ \E i \in 1..Len(yyvs) : yyvs[i].id = "y"

\* C7: a run that reduced the whole program without a fatal condition exits with
\* status 0, whatever the compile and run steps returned.
C7_ExitZero ==
  (pc = "exited" /\ "print_tree_visual" \in Range(log) /\ "fatal" \notin Range(log))
    => exit_status = 0

\* C7 witness: the run has exited after the compiler failed.
C7_Witness ==
  /\ pc = "exited"
  /\ "fatal" \notin Range(log)
  /\ compile_status # 0 /\ compile_status # NotCalled
  /\ exit_status = 0

\* C8: once the compiler has returned non-zero the failure has been reported, and
\* the executable is never invoked and result.txt never opened or read.
C8_CompileFailureStops ==
  (compile_status # 0 /\ compile_status # NotCalled)
    => /\ "Error: Compilation failed.\n" \in Range(stdout)
       /\ run_status = NotCalled
       /\ "system program" \notin Range(log)
       /\ "fopen result.txt" \notin Range(log)
       /\ fp = -1 /\ echoed = << >>
       /\ pc \in {"program_end", "yybackup", "yyreduce", "yyerrlab", "yyreturn", "exited"}

\* C8 witness: the orchestrator has returned to the parser after a failed compile.
C8_Witness ==
  /\ pc = "program_end"
  /\ compile_status = 256
  /\ LastChunk(stdout) = "Error: Compilation failed.\n"

\* C9: when the executable exits non-zero the orchestrator writes a diagnostic
\* (something besides the closing rule) before it returns.
C9_RuntimeErrorReported ==
  [][ (pc = "run_done" /\ run_status # 0)
        => \/ \E i \in (Len(stdout) + 1)..Len(stdout') : stdout'[i] # Dashes
           \/ Len(stderr') > Len(stderr) ]_vars

\* C10: when both steps returned 0 and the read of result.txt has finished, the
\* bytes echoed to standard output are exactly the bytes of result.txt, in order.
C10_ResultEchoed ==
  (compile_status = 0 /\ run_status = 0 /\ LastChunk(log) = "fclose result.txt")
    => echoed = result_txt

\* Steps of the pipeline that have started: 0 parsing, 1 rendered, 2 artifact
\* opened, 3 compiler invoked, 4 executable invoked.
PipelineStage ==
  IF run_status # NotCalled THEN 4
  ELSE IF compile_status # NotCalled THEN 3
  ELSE IF output_c.opened THEN 2
  ELSE IF \E i \in 1..Len(log) : log[i] = "print_tree_visual" THEN 1
  ELSE 0

\* The calls a step adds to the history.
NewCalls == { log'[i] : i \in (Len(log) + 1)..Len(log') }

RECURSIVE Flat(_)
\* The text a sequence of chunks amounts to.
Flat(s) == IF s = << >> THEN "" ELSE Head(s) \o Flat(Tail(s))

\* The expression emitter of one of the two versions of the generator.
EmitExpr(g, n) == IF g = "parser.y" THEN gen_expr(heap, n) ELSE gen_expr_tab(heap, n)

\* The versions of the generator that produce the artifact as it stands.
EmittersOf(text) ==
  { g \in {"parser.y", "parser.tab.c"} :
      text = Prologue
             \o (IF g = "parser.y" THEN GenList(heap, Arg(0).node, 1)
                                   ELSE GenList_tab(heap, Arg(0).node, 1))
             \o Epilogue }

\* The artifact has been written and the statement list is still on the stack.
Generated == output_c.opened /\ pc \in {"execute_generated_code", "run", "run_done", "echo", "program_end"}

BinaryOps == {"+", "-", "*", "/", "==", "!=", "<", ">", "<=", ">="}

IsNeg(n) == heap[n].type = "N_BINOP" /\ heap[n].sval = "neg"

IsBinary(n) == heap[n].type = "N_BINOP" /\ heap[n].sval # "neg"

RECURSIVE PureExpr(_)
\* n is an expression over number literals, identifiers, binary operators and neg.
PureExpr(n) ==
  /\ n # NULL
  /\ CASE heap[n].type \in {"N_NUM", "N_ID"} -> TRUE
       [] IsNeg(n) -> PureExpr(heap[n].left)
       [] IsBinary(n) -> PureExpr(heap[n].left) /\ PureExpr(heap[n].right)
       [] OTHER -> FALSE

\* Operator trees: op is "num", "id", "neg" or a binary operator.
Leaf(op, num, id) == [op |-> op, num |-> num, id |-> id, args |-> << >>]

Apply(op, args) == [op |-> op, num |-> 0, id |-> "", args |-> args]

RECURSIVE Tree(_)
\* The operator tree of the expression rooted at node n.
Tree(n) ==
  CASE heap[n].type = "N_NUM" -> Leaf("num", heap[n].ival, "")
    [] heap[n].type = "N_ID" -> Leaf("id", 0, heap[n].sval)
    [] IsNeg(n) -> Apply("neg", <<Tree(heap[n].left)>>)
    [] OTHER -> Apply(heap[n].sval, <<Tree(heap[n].left), Tree(heap[n].right)>>)

Literals == 0..9

\* Scanning the emitted text: parentheses and the minus of "(-" are tokens of their
\* own, a word between blanks is one token.
Lex(chunk) ==
  IF chunk = "(-" THEN <<"(", "-">>
  ELSE IF \E w \in BinaryOps \cup {"neg"} : chunk = " " \o w \o " "
    THEN <<CHOOSE w \in BinaryOps \cup {"neg"} : chunk = " " \o w \o " ">>
  ELSE <<chunk>>

RECURSIVE Scan(_)
Scan(chunks) == IF chunks = << >> THEN << >> ELSE Lex(Head(chunks)) \o Scan(Tail(chunks))

NoParse == [ok |-> FALSE, tree |-> Leaf("error", 0, ""), rest |-> << >>]

Parsed(t, rest) == [ok |-> TRUE, tree |-> t, rest |-> rest]

RECURSIVE ParseExpr(_)
\* A parser for fully parenthesized expressions:
\*   E ::= number | name | "(" "-" E ")" | "(" E op E ")"
ParseExpr(t) ==
  IF t = << >> THEN NoParse
  ELSE IF Head(t) = "(" /\ Len(t) >= 2 /\ t[2] = "-"
    THEN LET a == ParseExpr(SubSeq(t, 3, Len(t))) IN
           IF a.ok /\ a.rest # << >> /\ Head(a.rest) = ")"
             THEN Parsed(Apply("neg", <<a.tree>>), Tail(a.rest))
             ELSE NoParse
  ELSE IF Head(t) = "("
    THEN LET a == ParseExpr(Tail(t)) IN
           IF a.ok /\ a.rest # << >> /\ Head(a.rest) \in BinaryOps
             THEN LET b == ParseExpr(Tail(a.rest)) IN
                    IF b.ok /\ b.rest # << >> /\ Head(b.rest) = ")"
                      THEN Parsed(Apply(Head(a.rest), <<a.tree, b.tree>>), Tail(b.rest))
                      ELSE NoParse
             ELSE NoParse
  ELSE IF \E k \in Literals : ToDecimal(k) = Head(t)
    THEN Parsed(Leaf("num", CHOOSE k \in Literals : ToDecimal(k) = Head(t), ""), Tail(t))
  ELSE IF Head(t) \in Names
    THEN Parsed(Leaf("id", 0, Head(t)), Tail(t))
  ELSE NoParse

\* C12: once the artifact is written, for every expression of the program over
\* number literals, identifiers, binary operators and neg, parsing the text the
\* generator emitted for it with the fully-parenthesized grammar consumes all of
\* it and yields the operator tree of the expression.
C12_Reparse ==
  Generated
    => \A g \in EmittersOf(output_c.text) :
         \A n \in 1..Len(heap) :
           PureExpr(n)
             => ParseExpr(Scan(EmitExpr(g, n))) = Parsed(Tree(n), << >>)

\* C13: once the artifact is written, the text the generator emitted for every
\* neg node is "(-", the text emitted for its operand, and ")", and no chunk of
\* the artifact holds the operator name neg.
C13_NegEmission ==
  Generated
    => /\ \A g \in EmittersOf(output_c.text) :
            \A n \in 1..Len(heap) :
              (heap[n].type = "N_BINOP" /\ heap[n].sval = "neg")
                => Flat(EmitExpr(g, n)) = "(-" \o Flat(EmitExpr(g, heap[n].left)) \o ")"
       /\ \A i \in 1..Len(output_c.text) : output_c.text[i] # " neg "

\* C14: once the artifact is written, the text the generator emitted for a number
\* literal is its decimal text, for an identifier its name, and for a two-operand
\* operator node "(", the left operand's text, " op ", the right operand's text
\* and ")": one pair of parentheses around every binary application, whatever
\* the operator and whatever the operands are.
C14_ExprEmission ==
  Generated
    => \A g \in EmittersOf(output_c.text) :
         \A n \in 1..Len(heap) :
           /\ (heap[n].type = "N_NUM" /\ heap[n].ival \in Literals)
                => Flat(EmitExpr(g, n)) = Digits[heap[n].ival + 1]
           /\ heap[n].type = "N_ID" => Flat(EmitExpr(g, n)) = heap[n].sval
           /\ IsBinary(n)
                => Flat(EmitExpr(g, n))
                     = "(" \o Flat(EmitExpr(g, heap[n].left)) \o " " \o heap[n].sval \o " "
                       \o Flat(EmitExpr(g, heap[n].right)) \o ")"

\* C14 witness: the artifact holds -(1 + x) * 2: a product whose left operand is a
\* negation of a sum, next to number and identifier leaves.
C14_Witness ==
  /\ Generated
  /\ "(-" \in Range(output_c.text)
  /\ \E n \in 1..Len(heap) :
       /\ IsBinary(n) /\ heap[n].sval = "*"
       /\ IsNeg(heap[n].left)
       /\ IsBinary(heap[heap[n].left].left)
       /\ heap[heap[heap[heap[n].left].left].right].type = "N_ID"
       /\ heap[heap[n].right].type = "N_NUM"

\* ------------------------------------------- claims about statement emission
\* The If nodes built from the if/else form: rule 11 is the only place that logs
\* "ifn->next = else", right after the mknode of its If node.
BuiltWithElse ==
  { Count(SubSeq(log, 1, i), "mknode") : i \in { j \in 1..Len(log) : log[j] = "ifn->next = else" } }

RECURSIVE SourceList(_)
\* The statements of a list in source order: the chain of next links from p, with
\* the else blocks that share the links left out.
SourceList(p) ==
  IF p = NULL THEN << >>
  ELSE (IF heap[p].type = "N_STMTLIST" THEN << >> ELSE <<p>>) \o SourceList(heap[p].next)

RECURSIVE Margin(_, _)
\* depth indentation units
Margin(unit, depth) == IF depth = 0 THEN "" ELSE unit \o Margin(unit, depth - 1)

ExprText(g, n) == Flat(EmitExpr(g, n))

RECURSIVE StmtText(_, _, _, _)
RECURSIVE ListText(_, _, _, _)

\* The lines of the statements of list, each one at the given depth.
ListText(unit, g, list, depth) ==
  IF list = << >> THEN ""
  ELSE StmtText(unit, g, Head(list), depth) \o ListText(unit, g, Tail(list), depth)

\* The lines section 4.4 prescribes for statement s at nesting depth depth, with
\* unit as the indentation unit.
StmtText(unit, g, s, depth) ==
  Margin(unit, depth) \o
  CASE heap[s].type = "N_DECL" ->
         "int " \o heap[s].sval
         \o (IF heap[s].left # NULL THEN " = " \o ExprText(g, heap[s].left) ELSE "") \o ";\n"
    [] heap[s].type = "N_PRINT" -> "printf(\"%d\\n\", " \o ExprText(g, heap[s].left) \o ");\n"
    [] heap[s].type = "N_PRINT_STR" -> "printf(\"%s\\n\", " \o heap[s].sval \o ");\n"
    [] heap[s].type = "N_IF" ->
         "if (" \o ExprText(g, heap[s].left) \o ") {\n"
         \o ListText(unit, g, SourceList(heap[heap[s].right].left), depth + 1)
         \o Margin(unit, depth) \o "}"
         \o (IF s \in BuiltWithElse
               THEN " else {\n"
                    \o ListText(unit, g, SourceList(heap[heap[s].next].left), depth + 1)
                    \o Margin(unit, depth) \o "}\n"
               ELSE "\n")
    [] OTHER -> ExprText(g, s) \o ";\n"

\* The statement emitter of one of the two versions of the generator.
EmitStmt(g, s, depth) ==
  IF g = "parser.y" THEN gen_stmt(heap, s, depth) ELSE gen_stmt_tab(heap, s, depth)

IndentUnit == "    "

Depths == 1..2

\* C15: once the artifact is written, the text the generator emits for an If node
\* at a depth is `if (cond) {`, the statements of its then-block at depth + 1 and
\* the closing brace, followed by ` else {`, the statements of the else-block at
\* depth + 1 and a closing brace exactly when the If was built from the if/else
\* form, whatever follows the If in its list.
C15_IfEmission ==
  Generated
    => \A g \in EmittersOf(output_c.text) :
         \A s \in 1..Len(heap) :
           heap[s].type = "N_IF"
             => \A depth \in Depths :
                  Flat(EmitStmt(g, s, depth)) = StmtText(IndentUnit, g, s, depth)

\* The condition under which gen_stmt writes the else part of an If node.
WritesElse(s) == heap[s].next # NULL /\ heap[heap[s].next].type = "N_STMTLIST"

\* What does hold of the If emission: the else part is written exactly for the Ifs
\* of the if/else form, and apart from indentation units the text is the
\* prescribed one.
IfEmissionApartFromIndentation ==
  Generated
    => \A g \in EmittersOf(output_c.text) :
         \A s \in 1..Len(heap) :
           heap[s].type = "N_IF"
             => /\ WritesElse(s) <=> s \in BuiltWithElse
                /\ Flat(SelectSeq(EmitStmt(g, s, 1), LAMBDA c : c # IndentUnit))
                     = StmtText("", g, s, 1)

\* C16: once the artifact is written, its text is the prologue, then the lines of
\* the top-level statements, each statement once and in source order, then the
\* epilogue; for the empty program the prologue and the epilogue alone.
C16_Artifact ==
  Generated
    => \E g \in {"parser.y", "parser.tab.c"} :
         Flat(output_c.text)
           = Flat(Prologue) \o ListText(IndentUnit, g, SourceList(Arg(0).node), 1)
             \o Flat(Epilogue)

\* What does hold of the artifact: apart from indentation units it is the prologue,
\* every top-level statement once and in source order, and the epilogue.
ArtifactApartFromIndentation ==
  Generated
    => \E g \in {"parser.y", "parser.tab.c"} :
         Flat(SelectSeq(output_c.text, LAMBDA c : c # IndentUnit))
           = Flat(Prologue) \o ListText("", g, SourceList(Arg(0).node), 1) \o Flat(Epilogue)

\* The chunks that end a line of the generated statements (a string statement is
\* written as one chunk).
LineEnds ==
  {";\n", ");\n", ") {\n", " else {\n", "}\n", "\n"}
  \cup { "printf(\"%s\\n\", " \o str \o ");\n" : str \in {"\"s\""} }

RECURSIVE LeadingUnits(_)
\* the number of indentation units a sequence of chunks starts with
LeadingUnits(chunks) ==
  IF chunks # << >> /\ Head(chunks) = IndentUnit THEN 1 + LeadingUnits(Tail(chunks)) ELSE 0

RECURSIVE LineLength(_)
\* the number of chunks up to and including the first one that ends a line
LineLength(chunks) ==
  IF chunks = << >> THEN 0
  ELSE IF Head(chunks) \in LineEnds THEN 1
  ELSE 1 + LineLength(Tail(chunks))

RECURSIVE IndentedByDepth(_, _)
\* Every line of chunks starts with as many indentation units as its nesting depth,
\* where depth is the depth at the start: a line that opens a block puts the
\* lines after it one level deeper, a line that starts with a closing brace is one
\* level up again.
IndentedByDepth(chunks, depth) ==
  IF chunks = << >> THEN TRUE
  ELSE LET k == LeadingUnits(chunks)
           line == SubSeq(chunks, k + 1, k + LineLength(SubSeq(chunks, k + 1, Len(chunks))))
           rest == SubSeq(chunks, k + Len(line) + 1, Len(chunks))
       IN  IF line = << >> THEN FALSE
           ELSE LET d == IF Head(line) \in {"}", "}\n"} THEN depth - 1 ELSE depth
                    after == IF Last(line) \in {") {\n", " else {\n"} THEN d + 1 ELSE d
                IN  k = d /\ IndentedByDepth(rest, after)

\* The chunks of the artifact between the prologue and the epilogue.
Body(text) == SubSeq(text, Len(Prologue) + 1, Len(text) - Len(Epilogue))

\* C17: once the artifact is written, every line of its statements starts with
\* exactly as many indentation units as its nesting depth (top level is depth 1,
\* the inside of a then- or else-block is one deeper than its If), and no
\* indentation is written that is not the margin of such a line.
C17_Indentation ==
  Generated => IndentedByDepth(Body(output_c.text), 1)

\* ------------------------------------------------- claims about the renderer
\* C18: the step that renders the tree leaves every field of every node as it was
\* (the heap afterwards is the heap before plus the root built for the call),
\* leaves the symbol table as it was, and rendering the tree again in the state
\* it leaves gives the text that it wrote.
C18_RenderPure ==
  [][ (pc = "yyreduce" /\ yyn = 2)
        => LET stmts == Arg(0).node
               root == IF stmts # NULL THEN Len(heap) + 1 ELSE NULL
           IN  /\ heap' = IF stmts # NULL
                            THEN Append(heap, Node("N_STMTLIST", NOSTR, 0, stmts, NULL))
                            ELSE heap
               /\ symbol_table' = symbol_table
               /\ stdout' = stdout \o <<"\n--- VISUAL PARSE TREE ---\n">>
                            \o print_tree_visual(heap', root, 0, TRUE, 0)
                            \o <<Dashes \o "\n">> ]_vars

\* C18 witness: a tree with a declaration and an if/else has been rendered.
C18_Witness ==
  /\ pc = "generate_target_code"
  /\ symbol_table # << >>
  /\ "IF\n" \in Range(stdout)
  /\ \E i \in 1..Len(heap) : heap[i].type = "N_IF" /\ heap[i].next # NULL
  /\ LastChunk(stdout) = Dashes \o "\n"

\* --------------------------------------------- claims about the symbol table
\* the names of the N_DECL nodes: the declarations that went through
DeclaredNames == { heap[i].sval : i \in { j \in 1..Len(heap) : heap[j].type = "N_DECL" } }

\* C19: the symbol table only grows, whatever block a declaration stands in: every
\* step leaves the names it holds in it (new names are put in front), every name
\* declared so far is in it, and a use of a name that is in it passes the lookup
\* (the node is built and nothing is reported), also after the block that
\* declared the name has been closed.
C19_FlatGrowing ==
  [][ /\ Len(symbol_table') >= Len(symbol_table)
      /\ SubSeq(symbol_table', Len(symbol_table') - Len(symbol_table) + 1, Len(symbol_table'))
           = symbol_table
      /\ \A name \in DeclaredNames : InList(symbol_table, name)
      /\ (UsesIdentifier /\ UsedName \in DeclaredNames)
           => /\ pc' # "exited"
              /\ stdout' = stdout
              /\ heap' = Append(heap, Node(IF yyn = 13 THEN "N_ASSIGN" ELSE "N_ID", UsedName, 0,
                                           IF yyn = 13 THEN Arg(0).node ELSE NULL, NULL)) ]_vars

\* C19 witness: x was declared inside the then-block of an if, the block has been
\* closed, and x has been used at top level after the if.
C19_Witness ==
  /\ pc # "exited"
  /\ symbol_table = <<"x">>
  /\ \E b, i, u \in 1..Len(heap) :
       /\ heap[b].type = "N_STMTLIST"
       /\ heap[b].left # NULL
       /\ heap[heap[b].left].type = "N_DECL" /\ heap[heap[b].left].sval = "x"
       /\ heap[i].type = "N_IF" /\ heap[i].right = b
       /\ heap[u].type = "N_ID" /\ heap[u].sval = "x" /\ u > i

\* C20: declare(name) on a name that is in the table ends the run with the
\* DuplicateDeclaration diagnostic and on any other name puts exactly that name
\* into the table; lookup(name) on a name that is not in the table ends the run
\* with the UndeclaredVariable diagnostic, on any other name reports nothing, and
\* leaves the table as it is either way; the table never holds a name twice and
\* holds exactly the names whose declaration went through.
C20_TableOperations ==
  [][ /\ Declares
           => IF InList(symbol_table, DeclaredName)
                THEN /\ pc' = "exited"
                     /\ stdout' = Append(stdout, DuplicateDeclaration(DeclaredName))
                     /\ symbol_table' = symbol_table
                ELSE /\ pc' # "exited"
                     /\ stdout' = stdout
                     /\ Len(symbol_table') = Len(symbol_table) + 1
                     /\ Range(symbol_table') = Range(symbol_table) \cup {DeclaredName}
      /\ UsesIdentifier
           => /\ symbol_table' = symbol_table
              /\ IF InList(symbol_table, UsedName)
                   THEN pc' # "exited" /\ stdout' = stdout
                   ELSE /\ pc' = "exited"
                        /\ stdout' = Append(stdout, UndeclaredVariable(UsedName))
      /\ Cardinality(Range(symbol_table')) = Len(symbol_table')
      /\ Range(symbol_table') = { heap'[i].sval :
                                   i \in { j \in 1..Len(heap') : heap'[j].type = "N_DECL" } } ]_vars

\* C20 witness: after `int x; int y; y = x;` both declarations and both lookups
\* have gone through and the table holds the two names.
C20_Witness ==
  /\ pc # "exited"
  /\ symbol_table = <<"y", "x">>
  /\ \E a \in 1..Len(heap) :
       /\ heap[a].type = "N_ASSIGN" /\ heap[a].sval = "y"
       /\ heap[heap[a].left].type = "N_ID" /\ heap[heap[a].left].sval = "x"

\* ------------------------------------------------ claims about the AST builder
\* the calls the step makes, in the order it makes them
StepCalls == SubSeq(log', Len(log) + 1, Len(log'))

\* C21: a declaration reduction calls add_symbol first and builds its Declaration
\* node after it, a reduction that uses an identifier (assignment target or
\* operand) calls check_declared first and builds its Assignment or Identifier
\* node after it, and when the call fails (the name is already declared,
\* respectively not declared) the step ends the run without building any node.
C21_CheckBeforeBuild ==
  [][ /\ Declares
           => /\ StepCalls # << >> /\ StepCalls[1] = "add_symbol"
              /\ IF InList(symbol_table, DeclaredName)
                   THEN /\ pc' = "exited"
                        /\ heap' = heap
                        /\ "mknode" \notin Range(StepCalls)
                   ELSE /\ StepCalls = <<"add_symbol", "mknode">>
                        /\ InList(symbol_table', DeclaredName)
                        /\ heap' = Append(heap, Node("N_DECL", DeclaredName, 0,
                                                     IF yyn = 5 THEN NULL ELSE Arg(-1).node, NULL))
      /\ UsesIdentifier
           => /\ StepCalls # << >> /\ StepCalls[1] = "check_declared"
              /\ IF ~ InList(symbol_table, UsedName)
                   THEN /\ pc' = "exited"
                        /\ heap' = heap
                        /\ "mknode" \notin Range(StepCalls)
                   ELSE /\ StepCalls = <<"check_declared", "mknode">>
                        /\ heap' = Append(heap, Node(IF yyn = 13 THEN "N_ASSIGN" ELSE "N_ID",
                                                     UsedName, 0,
                                                     IF yyn = 13 THEN Arg(0).node ELSE NULL, NULL))
    ]_vars

\* C21 witness: `int y; print(x)`: the declaration of y went through and built its
\* node, the lookup of x failed and the run ended with that one node.
C21_Witness ==
  /\ pc = "exited"
  /\ yyn = 27
  /\ symbol_table = <<"y">>
  /\ Len(heap) = 1 /\ heap[1].type = "N_DECL"
  /\ SelectSeq(log, LAMBDA c : c \in {"add_symbol", "check_declared", "mknode", "fatal"})
       = <<"add_symbol", "mknode", "check_declared", "fatal">>

RECURSIVE Walk(_, _)
\* walking a list from its head: the nodes met by following the next links from p
Walk(h, p) == IF p = NULL THEN << >> ELSE <<p>> \o Walk(h, h[p].next)

\* the list a reduction of rule 4 starts from, and the list it leaves
ListBefore == IF Arg(-1).node = NULL THEN << >> ELSE Walk(heap, Arg(-1).node)

ListAfter == Walk(heap', Last(yyvs').node)

\* C22: each reduction of `stmt_list: stmt_list statement` leaves a list whose walk
\* is the walk of the list before it followed by the new statement and by nothing
\* else: the statements reduced into the list, each once, in source order, and no
\* block (an else-block is a N_STMTLIST node, a statement never is) among them.
C22_ListOrder ==
  [][ (pc = "yyreduce" /\ yyn = 4)
        => /\ ListAfter = Append(ListBefore, Arg(0).node)
           /\ \A i \in 1..Len(ListAfter) : heap'[ListAfter[i]].type # "N_STMTLIST" ]_vars

\* What does hold of the lists: the walk of the list before is a prefix of the walk
\* of the list after, the new statement comes right after that prefix, and what
\* follows the new statement is at most its own else-block.
ListOrderApartFromElseBlocks ==
  [][ (pc = "yyreduce" /\ yyn = 4)
        => /\ SubSeq(ListAfter, 1, Len(ListBefore) + 1) = Append(ListBefore, Arg(0).node)
           /\ \/ Len(ListAfter) = Len(ListBefore) + 1
              \/ /\ Len(ListAfter) = Len(ListBefore) + 2
                 /\ heap[Arg(0).node].type = "N_IF"
                 /\ Arg(0).node \in BuiltWithElse
                 /\ heap'[Last(ListAfter)].type = "N_STMTLIST" ]_vars

\* the fields of a node apart from its next link
Fields(n) == <<n.type, n.sval, n.ival, n.left, n.right>>

\* the nodes whose next link the step writes
NextWritten == { i \in 1..Len(heap) : heap'[i].next # heap[i].next }

\* C23: no step changes a node that exists, except that a reduction of rule 4 hangs
\* the new statement on the next link of the last statement of the list; the next
\* link of an If node, which holds its else-block, is set when the if/else form
\* builds the node and at no other time, so that of an If node built without else
\* stays empty, and the next link of a block is never written.
C23_NoMutation ==
  [][ /\ Len(heap') >= Len(heap)
      /\ \A i \in 1..Len(heap) : Fields(heap'[i]) = Fields(heap[i])
      /\ NextWritten # {} => pc = "yyreduce" /\ yyn = 4
      /\ \A i \in NextWritten : heap[i].type \notin {"N_IF", "N_STMTLIST"}
      /\ \A i \in (Len(heap) + 1)..Len(heap') :
           heap'[i].next # NULL => pc = "yyreduce" /\ yyn = 11 /\ heap'[i].next = Arg(0).node
    ]_vars

\* What does hold of the nodes: only the next link of a node is ever written, only
\* by append_stmt, only once (it was empty), and only on the node that ends the
\* walk of the list, which gets the new statement.
NoMutationApartFromNextLinks ==
  [][ /\ Len(heap') >= Len(heap)
      /\ \A i \in 1..Len(heap) : Fields(heap'[i]) = Fields(heap[i])
      /\ NextWritten # {}
           => /\ pc = "yyreduce" /\ yyn = 4 /\ Arg(-1).node # NULL
              /\ NextWritten = {Last(Walk(heap, Arg(-1).node))}
      /\ \A i \in NextWritten : heap[i].next = NULL /\ heap'[i].next = Arg(0).node
      /\ \A i \in (Len(heap) + 1)..Len(heap') :
           heap'[i].next # NULL => pc = "yyreduce" /\ yyn = 11 /\ heap'[i].next = Arg(0).node
    ]_vars

\* the links of the heap, empty ones left out, as pairs of node and field
Links(h) ==
  { l \in (1..Len(h)) \X {"left", "right", "next"} : h[l[1]][l[2]] # NULL }

Target(h, l) == h[l[1]][l[2]]

RECURSIVE Below(_, _)
\* the nodes met by following links from p, p included
Below(h, p) ==
  IF p = NULL THEN {}
  ELSE {p} \cup Below(h, h[p].left) \cup Below(h, h[p].right) \cup Below(h, h[p].next)

\* no two links point to the same node, and every node is met by following links
\* from a node that no link points to: together that excludes every cycle
StrictTree(h) ==
  LET targets == { Target(h, l) : l \in Links(h) }
  IN  /\ Cardinality(Links(h)) = Cardinality(targets)
      /\ UNION { Below(h, r) : r \in (1..Len(h)) \ targets } = 1..Len(h)

\* C24: in every state the nodes form a strict tree: at most one left, right or
\* next link points to a node, following links never comes back to a node, and
\* the nodes a step builds or links refer to nodes that already exist (a new node's
\* children are older than it and a link written into an old node points to a
\* node that exists).
C24_StrictTree ==
  [][ heap' # heap
        => /\ StrictTree(heap')
           /\ \A l \in Links(heap') :
                /\ Target(heap', l) \in 1..Len(heap')
                /\ l[1] > Len(heap) => Target(heap', l) \in 1..Len(heap) ]_vars

\* C24 witness: the tree of a program with an if/else followed by a statement has
\* been completed: the root block, the If, its else-block and the statement hung
\* behind it.
C24_Witness ==
  /\ pc = "generate_target_code"
  /\ heap # << >>
  /\ heap[Len(heap)].type = "N_STMTLIST"
  /\ StrictTree(heap)
  /\ \E i \in 1..Len(heap) :
       /\ heap[i].type = "N_IF" /\ heap[i].next # NULL
       /\ heap[heap[i].next].next # NULL

\* --------------------------------------------- claims about the tree traversal
\* the step that renders the tree, and the calls of print_tree_visual it makes
Renders == pc = "yyreduce" /\ yyn = 2

Rendered ==
  IF Arg(0).node = NULL THEN << >> ELSE Visit(heap', Len(heap'), 0, TRUE, 0, << >>)

\* what a call prints itself: its prefix and the line of its node
LineOf(h, v) == print_branch(v.depth, v.is_last, v.mask) \o <<NodeLabel(h[v.node])>>

RECURSIVE TextOf(_, _)
TextOf(h, calls) ==
  IF calls = << >> THEN << >> ELSE LineOf(h, Head(calls)) \o TextOf(h, Tail(calls))

\* the rendering written by the step is the text of the calls, one line per call
TextAsCalled ==
  stdout' = stdout \o <<"\n--- VISUAL PARSE TREE ---\n">> \o TextOf(heap', Rendered)
                   \o <<Dashes \o "\n">>

\* the calls made directly by call v, in order, as pairs of node and is_last
ChildCalls(calls, v) ==
  LET here == Append(v.path, [node |-> v.node, is_last |-> v.is_last])
      own == SelectSeq(calls, LAMBDA w : w.path = here)
  IN  [k \in 1..Len(own) |-> <<own[k].node, own[k].is_last>>]

\* the elements of a list marked as a list is to be rendered: the last one is_last
MarkLast(list) == [k \in 1..Len(list) |-> <<list[k], k = Len(list)>>]

\* the statements of the list that starts at p: the chain of next links, the
\* else-blocks that share the links left out
StatementsOf(h, p) == SelectSeq(Walk(h, p), LAMBDA i : h[i].type # "N_STMTLIST")

\* The traversal rules, with the elements of a list being its statements
\* (statements_only) or every node of its chain of next links.
TraversalRules(statements_only) ==
  \A k \in 1..Len(Rendered) :
    LET v == Rendered[k]
        n == heap'[v.node]
    IN  ChildCalls(Rendered, v) =
          IF n.type = "N_STMTLIST"
            THEN MarkLast(IF statements_only THEN StatementsOf(heap', n.left)
                                             ELSE Walk(heap', n.left))
          ELSE IF n.left # NULL /\ n.right # NULL THEN <<<<n.left, FALSE>>, <<n.right, TRUE>>>>
          ELSE IF n.left # NULL THEN <<<<n.left, TRUE>>>>
          ELSE IF n.right # NULL THEN <<<<n.right, TRUE>>>>
          ELSE << >>

\* C25: the rendering makes, for a block, one call per statement of its list in
\* list order, with is_last set exactly for the final statement; for a node with
\* two children a call for the left and then one for the right, only the latter
\* with is_last; for a node with one child a call for that child with is_last;
\* for a childless node no call; and each call prints one line.
C25_Traversal ==
  [][ Renders => TextAsCalled /\ TraversalRules(TRUE) ]_vars

\* What does hold of the traversal: the same rules with every node of the chain of
\* next links, else-blocks included, taken as an element of the list.
TraversalOfNextChain ==
  [][ Renders => TextAsCalled /\ TraversalRules(FALSE) ]_vars

\* C26: in every call of print_tree_visual made while rendering, at depth d, bit b
\* of the mask, for each b < d, is set exactly when the caller at depth b was
\* called with is_last false; and a call has is_last false exactly when its
\* caller makes a further call after it (the node has further siblings).
C26_MaskBits ==
  [][ Renders
        => /\ TextAsCalled
           /\ \A calls \in {Rendered} : \A k \in 1..Len(calls) :
                \A v \in {calls[k]} :
                  /\ Len(v.path) = v.depth
                  /\ \A b \in 0..(v.depth - 1) : BitSet(v.mask, b) <=> ~ v.path[b + 1].is_last
                  /\ ~ v.is_last <=> \E m \in (k + 1)..Len(calls) : calls[m].path = v.path
    ]_vars

\* C26 witness: a tree has been rendered in which one node at depth 2 or more was
\* visited with a bit set in its mask and another one with an empty mask.
C26_Witness ==
  /\ pc = "generate_target_code"
  /\ heap # << >>
  /\ LET calls == Visit(heap, Len(heap), 0, TRUE, 0, << >>)
     IN  /\ \E k \in 1..Len(calls) : calls[k].depth >= 2 /\ calls[k].mask # 0
         /\ \E k \in 1..Len(calls) : calls[k].depth >= 2 /\ calls[k].mask = 0

\* the text of prefix column i of a line whose branch does, or does not, go on
Column(continues) == IF continues THEN "|   " ELSE "    "

\* C27: in the line of a node at depth d, prefix column i, for 0 <= i < d - 1, is
\* the column in which the ancestor at depth i + 1 printed its connector, and it
\* shows a bar exactly when that ancestor has further siblings to come (it was
\* visited with is_last false), and blanks otherwise.
C27_BarsAligned ==
  [][ Renders
        => /\ TextAsCalled
           /\ \A k \in 1..Len(Rendered) :
                LET v == Rendered[k]
                IN  \A i \in 0..(v.depth - 2) :
                      LineOf(heap', v)[i + 1] = Column(~ v.path[i + 2].is_last) ]_vars

\* What does hold of the columns: column i follows the ancestor at depth i, whose
\* connector stands one column to the left (the root, at depth 0, has none and is
\* always last, so column 0 is always blank).
BarsFollowAncestorAbove ==
  [][ Renders
        => /\ TextAsCalled
           /\ \A k \in 1..Len(Rendered) :
                LET v == Rendered[k]
                IN  \A i \in 0..(v.depth - 2) :
                      LineOf(heap', v)[i + 1] = Column(~ v.path[i + 1].is_last) ]_vars

\* C28: for every If node built from the if/else form, the rendering visits the
\* else-block from the call of the If, at the depth of the If plus one, after the
\* condition and the then-block, never from the call of the enclosing list (as one
\* more entry beside the If), and when nothing follows the if/else in its list
\* the If is visited with is_last set.
C28_ElseBeneathIf ==
  [][ Renders
        => /\ TextAsCalled
           /\ \A k \in 1..Len(Rendered) :
                LET v == Rendered[k]
                    n == heap'[v.node]
                IN  v.node \in BuiltWithElse
                      => /\ LET below == ChildCalls(Rendered, v)
                            IN  [j \in 1..Len(below) |-> below[j][1]] = <<n.left, n.right, n.next>>
                         /\ \A m \in 1..Len(Rendered) :
                              Rendered[m].node = n.next
                                => /\ Rendered[m].depth = v.depth + 1
                                   /\ Rendered[m].path # v.path
                         /\ heap'[n.next].next = NULL => v.is_last ]_vars

\* ------------------------------------------- claims about failing statements
\* the parser state at position j + 1 of the stack was entered from the one at
\* position j by shifting token tok
ShiftedOn(j, tok) ==
  YyDecide(yyss[j], YYTRANSLATE(tok)) = [act |-> "shift", n |-> yyss[j + 1]]

\* The parser is inside the initializer of a declaration of name: its stack holds
\* INT, ID (with that name) and '=' of a declaration that is not yet reduced.
InInitializerOf(name) ==
  \E j \in 1..(Len(yyss) - 3) :
    /\ ShiftedOn(j, TOK_INT)
    /\ ShiftedOn(j + 1, TOK_ID)
    /\ ShiftedOn(j + 2, CH_ASSIGN)
    /\ yyvs[j + 2].id = name

\* C29: when the initializer of a declaration of x uses x and x has not been
\* declared before, the reduction of that use ends the run with the
\* UndeclaredVariable diagnostic for x: the lookup runs while the declaration is
\* still unreduced, add_symbol is not called by the step, and x is not in the
\* symbol table when the run ends.
C29_SelfInitializer ==
  [][ (UsesIdentifier /\ InInitializerOf(UsedName) /\ ~ DeclaredEarlier(UsedName))
        => /\ ~ InList(symbol_table, UsedName)
           /\ pc' = "exited"
           /\ stdout' = Append(stdout, UndeclaredVariable(UsedName))
           /\ StepCalls = <<"check_declared", "fatal">>
           /\ heap' = heap
           /\ ~ InList(symbol_table', UsedName) ]_vars

\* C29 witness: `int y; int x = x;`: the run has ended at the use of x in the
\* initializer of x, with y alone in the symbol table.
C29_Witness ==
  /\ pc = "exited"
  /\ yyn = 27
  /\ InInitializerOf("x")
  /\ Arg(0).id = "x"
  /\ symbol_table = <<"y">>
  /\ LastChunk(stdout) = UndeclaredVariable("x")

\* generate_target_code has tried to open output.c and could not
OutputNotOpened == ~ output_c.opened /\ \E i \in 1..Len(log) : log[i] = "fopen output.c"

\* C30: the step in which output.c cannot be opened comes after the rendering of
\* the tree, reports the failure on the error stream and returns to the parser
\* without doing anything else; and from then on no step writes output.c, invokes
\* the compiler or the executable, or opens or reads result.txt, and the process,
\* when it ends, ends with status 0.
C30_OutputNotOpened ==
  [][ /\ (pc = "generate_target_code" /\ ~ output_c'.opened)
           => /\ stderr' = Append(stderr, "fopen output.c: <strerror>\n")
              /\ NewCalls = {"fopen output.c"}
              /\ pc' = "program_end"
              /\ "print_tree_visual" \in Range(log)
              /\ LastChunk(stdout) = Dashes \o "\n"
              /\ UNCHANGED << stdout, output_c, compile_status, run_status, result_txt, fp,
                              echoed, exit_status >>
      /\ OutputNotOpened
           => /\ output_c' = output_c /\ output_c.text = << >>
              /\ compile_status' = NotCalled /\ run_status' = NotCalled
              /\ result_txt' = << >> /\ echoed' = << >> /\ fp' = -1
              /\ NewCalls \cap {"fopen output.c", "fclose output.c", "system gcc",
                                 "system program", "fopen result.txt"} = {}
              /\ pc' \notin {"generate_target_code", "execute_generated_code", "run",
                              "run_done", "echo"}
              /\ pc' = "exited" => exit_status' = 0 ]_vars

\* C30 witness: the process has ended after output.c could not be opened for a
\* program with statements.
C30_Witness ==
  /\ OutputNotOpened
  /\ pc = "exited"
  /\ exit_status = 0
  /\ heap # << >>
  /\ "fatal" \notin Range(log)

====
